---- MODULE Spec2Model ----
(***************************************************************************)
(* A model of slack-mcp-server: the Streamable HTTP adapter with its       *)
(* session registry (runHttpServer) and the tool dispatcher                *)
(* (the CallToolRequestSchema handler of createServer).                    *)
(***************************************************************************)
EXTENDS Integers, Sequences, FiniteSets, TLC

(* ------------------------------ bounds --------------------------------- *)

\* Transport/server instances created by POST /mcp over a run.
MaxInstances == 2

\* POST /mcp requests suspended at an await at the same time.
MaxPending == 2

\* Tool invocations counted per server instance.
MaxCalls == 1

VARIABLES
  transports,  \* the session registry: own keys (session ids) -> instance
  inst,        \* the transport/server instances created so far, in order
  pending,     \* POST /mcp requests suspended at an await
  uuids,       \* how many identifiers randomUUID has produced
  last,        \* the last HTTP response written (or the lack of one)
  inv,         \* the tool invocation being served: operation, arguments, pc
  rc,          \* the remote calls the invocation has issued, in issue order
  order,       \* the indices of rc in the order the calls settled
  res,         \* the outcome of the invocation
  parsed,      \* response-schema validations run by the invocation
  req,         \* the last argument bag given to a request schema, and the result
  proc,        \* the server process: environment, arguments, position, exit
  listed       \* the last answer to a tools/list query

httpVars == <<transports, inst, pending, uuids, last>>

toolVars == <<inv, rc, order, res, parsed, req, proc, listed>>

dispatchVars == <<inv, rc, order, res, parsed>>

vars ==
  <<transports, inst, pending, uuids, last, inv, rc, order, res, parsed, req,
    proc, listed>>

(* --------------------------- HTTP adapter ------------------------------ *)

\* The value of an absent mcp-session-id header, and of an unset sessionId.
Undefined == "undefined"

\* Names every plain object inherits from Object.prototype; transports is
\* created as the literal {} and is read with transports[sessionId].
ObjectPrototype == {"constructor", "__proto__"}

\* A header value that is neither a generated identifier nor inherited.
Forged == "forged"

\* What transports[sessionId] yields when it is not a transport.
NoTransport == 0

InheritedMember == -1

\* JSON-RPC bodies a client posts.
Bodies == {"initialize", "tools/call", "tools/list"}

\* sessionIdGenerator: the n-th identifier randomUUID produces.
randomUUID(n) == "uuid-" \o ToString(n)

\* A transport as constructed at the POST handler's else branch, with the
\* server connected to it.
NewTransport == [sessionId |-> Undefined, initialized |-> FALSE,
                 closed |-> FALSE, calls |-> 0]

\* Identifiers a client has been given: generated and echoed in a response.
Echoed ==
  {randomUUID(n) : n \in 1..uuids} \
    {inst[p.t].sessionId : p \in {q \in pending : q.phase = "respond"}}

\* Values of the mcp-session-id header a client can send.
Headers == {Undefined, Forged} \cup ObjectPrototype \cup Echoed

\* Mutant: every identifier is looked up as the first instance's.
LookupFirst(sessionId) ==
  IF sessionId = Undefined THEN NoTransport
  ELSE IF sessionId \in DOMAIN transports THEN 1
  ELSE IF sessionId \in ObjectPrototype THEN InheritedMember
  ELSE NoTransport

\* sessionId && transports[sessionId], and transports[sessionId] after it.
Lookup(sessionId) ==
  IF sessionId = Undefined THEN NoTransport
  ELSE IF sessionId \in DOMAIN transports THEN transports[sessionId]
  ELSE IF sessionId \in ObjectPrototype THEN InheritedMember
  ELSE NoTransport

\* Mutant: the registry holds the newest session only.
onsessioninitializedSingle(newSessionId, t) == [k \in {newSessionId} |-> t]

\* onsessioninitialized: transports[newSessionId] = transport.
onsessioninitialized(newSessionId, t) ==
  [k \in DOMAIN transports \cup {newSessionId} |->
     IF k = newSessionId THEN t ELSE transports[k]]

\* Mutant: the entry of a closed transport is kept.
oncloseKeeps(sessionId) == transports

\* Mutant: closing one transport empties the registry.
oncloseClears(sessionId) ==
  IF sessionId # Undefined THEN << >> ELSE transports

\* transport.onclose: delete transports[transport.sessionId] when it is set.
onclose(sessionId) ==
  IF sessionId # Undefined
  THEN [k \in DOMAIN transports \ {sessionId} |-> transports[k]]
  ELSE transports

\* The transport's session check on every request but an initialization.
validateSession(tr, hdr) ==
  IF ~tr.initialized THEN 400
  ELSE IF hdr = Undefined THEN 400
  ELSE IF hdr # tr.sessionId THEN 404
  ELSE 200

\* transport.handleRequest for a POST: the status, whether the transport
\* initializes a session, and whether the message reaches the server.
handlePostRequest(tr, hdr, body) ==
  IF body = "initialize"
  THEN IF tr.initialized /\ tr.sessionId # Undefined
       THEN [status |-> 400, init |-> FALSE, deliver |-> FALSE]
       ELSE [status |-> 200, init |-> TRUE, deliver |-> TRUE]
  ELSE LET v == validateSession(tr, hdr)
       IN [status |-> v, init |-> FALSE, deliver |-> (v = 200)]

\* The server's request handlers: only tools/call reaches the dispatcher.
Dispatch(tr, body) ==
  IF body = "tools/call" THEN [tr EXCEPT !.calls = @ + 1] ELSE tr

\* A response record. known: the header was a key of the registry when the
\* handler looked it up; to: the instance the request was forwarded to;
\* made: the instance the request created; echo: the identifier echoed.
Response(method, hdr, body, known, status, to, made, echo) ==
  [method |-> method, hdr |-> hdr, body |-> body, known |-> known,
   status |-> status, to |-> to, made |-> made, echo |-> echo]

NoResponse ==
  Response("none", Undefined, "none", FALSE, 0, NoTransport, NoTransport,
           Undefined)

Init ==
  /\ transports = << >>
  /\ inst = << >>
  /\ pending = {}
  /\ uuids = 0
  /\ last = NoResponse
  /\ inv = [op |-> "none", params |-> [name |-> "none"],
            args |-> [f \in {} |-> [type |-> "string", v |-> ""]],
            hasFiles |-> FALSE, ids |-> << >>, pc |-> "idle"]
  /\ rc = << >>
  /\ order = << >>
  /\ res = [kind |-> "none", text |-> << >>, message |-> << >>]
  /\ parsed = 0
  /\ req = [name |-> "none"]
  /\ proc = [pc |-> "none"]
  /\ listed = [tools |-> << >>]

\* POST /mcp, lines 582-584 and 609: the identifier is registered, the
\* registered transport handles the request.
PostReuse(hdr, body) ==
  /\ Lookup(hdr) > NoTransport
  /\ LET t == Lookup(hdr)
         r == handlePostRequest(inst[t], hdr, body)
     IN /\ (r.deliver /\ body = "tools/call") => inst[t].calls < MaxCalls
        /\ inst' = IF r.deliver
                   THEN [inst EXCEPT ![t] = Dispatch(@, body)]
                   ELSE inst
        /\ last' = Response("POST", hdr, body, TRUE, r.status, t,
                            NoTransport, Undefined)
  /\ UNCHANGED <<transports, pending, uuids, toolVars>>

\* POST /mcp when transports[sessionId] is an inherited member: it has no
\* handleRequest, the call throws a TypeError and the catch answers 500.
PostInherited(hdr, body) ==
  /\ Lookup(hdr) = InheritedMember
  /\ last' = Response("POST", hdr, body, FALSE, 500, NoTransport,
                      NoTransport, Undefined)
  /\ UNCHANGED <<transports, inst, pending, uuids, toolVars>>

\* POST /mcp, lines 585-605: no transport found; a transport and a server
\* are created and connected, which suspends the handler.
PostCreate(hdr, body) ==
  /\ Lookup(hdr) = NoTransport
  /\ Len(inst) < MaxInstances
  /\ Cardinality(pending) < MaxPending
  /\ inst' = Append(inst, NewTransport)
  /\ pending' = pending \cup
       {[t |-> Len(inst) + 1, hdr |-> hdr, body |-> body,
         phase |-> "connect"]}
  /\ UNCHANGED <<transports, uuids, last, toolVars>>

\* POST /mcp, line 609, on the transport just created: an initialization
\* generates the identifier and registers it; anything else is refused by
\* the transport, which is not initialized.
PostHandle(p) ==
  /\ p \in pending
  /\ p.phase = "connect"
  /\ LET r == handlePostRequest(inst[p.t], p.hdr, p.body)
         id == randomUUID(uuids + 1)
     IN IF r.init
        THEN /\ uuids' = uuids + 1
             /\ inst' = [inst EXCEPT ![p.t] =
                           [@ EXCEPT !.sessionId = id, !.initialized = TRUE]]
             /\ transports' = onsessioninitialized(id, p.t)
             /\ pending' = (pending \ {p}) \cup {[p EXCEPT !.phase = "respond"]}
             /\ UNCHANGED <<last, toolVars>>
        ELSE /\ last' = Response("POST", p.hdr, p.body, FALSE, r.status,
                                 p.t, p.t, Undefined)
             /\ pending' = pending \ {p}
             /\ UNCHANGED <<transports, inst, uuids, toolVars>>

\* The response to an initialization is written: it echoes the identifier
\* in the mcp-session-id response header.
PostRespond(p) ==
  /\ p \in pending
  /\ p.phase = "respond"
  /\ last' = Response("POST", p.hdr, p.body, FALSE, 200, p.t, p.t,
                      inst[p.t].sessionId)
  /\ pending' = pending \ {p}
  /\ UNCHANGED <<transports, inst, uuids, toolVars>>

\* GET /mcp and DELETE /mcp, lines 627-631 and 639-643.
Reject(method, hdr) ==
  /\ Lookup(hdr) = NoTransport
  /\ last' = Response(method, hdr, "none", FALSE, 400, NoTransport,
                      NoTransport, Undefined)
  /\ UNCHANGED <<transports, inst, pending, uuids, toolVars>>

\* GET /mcp and DELETE /mcp when transports[sessionId] is an inherited
\* member: the call of its handleRequest throws outside any try block.
\* Express 5 answers 500; Express 4 leaves the rejection unhandled and
\* writes no response (status 0).
Throw(method, hdr) ==
  /\ Lookup(hdr) = InheritedMember
  /\ \E status \in {500, 0} :
       last' = Response(method, hdr, "none", FALSE, status, NoTransport,
                        NoTransport, Undefined)
  /\ UNCHANGED <<transports, inst, pending, uuids, toolVars>>

\* GET /mcp, lines 633-634: the registered transport opens the stream.
Get(hdr) ==
  /\ Lookup(hdr) > NoTransport
  /\ LET t == Lookup(hdr)
     IN last' = Response("GET", hdr, "none", TRUE,
                         validateSession(inst[t], hdr), t, NoTransport,
                         Undefined)
  /\ UNCHANGED <<transports, inst, pending, uuids, toolVars>>

\* DELETE /mcp, lines 645-646: the registered transport closes, and its
\* onclose removes the registry entry.
Delete(hdr) ==
  /\ Lookup(hdr) > NoTransport
  /\ LET t == Lookup(hdr)
         v == validateSession(inst[t], hdr)
     IN /\ last' = Response("DELETE", hdr, "none", TRUE, v, t, NoTransport,
                            Undefined)
        /\ IF v = 200
           THEN /\ inst' = [inst EXCEPT ![t] = [@ EXCEPT !.closed = TRUE]]
                /\ transports' = onclose(inst[t].sessionId)
           ELSE UNCHANGED <<transports, inst>>
  /\ UNCHANGED <<pending, uuids, toolVars>>

\* Values of new Date().toISOString() at two moments.
Instants == {"2026-01-01T00:00:00.000Z", "2026-01-01T00:00:01.000Z"}

\* The response of GET /health: a response record with the JSON it carries.
HealthResponse(hdr, now) ==
  [method |-> "GET /health", hdr |-> hdr, body |-> "none", known |-> FALSE,
   status |-> 200, to |-> NoTransport, made |-> NoTransport,
   echo |-> Undefined, payload |-> [status |-> "ok", timestamp |-> now]]

\* Mutant: the health check closes the session whose identifier it is given.
HealthClosesSession(hdr) ==
  /\ \E now \in Instants : last' = HealthResponse(hdr, now)
  /\ transports' = [k \in DOMAIN transports \ {hdr} |-> transports[k]]
  /\ UNCHANGED <<inst, pending, uuids, toolVars>>

\* GET /health, lines 650-652.
Health(hdr) ==
  /\ \E now \in Instants : last' = HealthResponse(hdr, now)
  /\ UNCHANGED <<transports, inst, pending, uuids, toolVars>>

Next ==
  \/ \E hdr \in Headers, body \in Bodies : PostReuse(hdr, body)
  \/ \E hdr \in Headers, body \in Bodies : PostInherited(hdr, body)
  \/ \E hdr \in Headers, body \in Bodies : PostCreate(hdr, body)
  \/ \E p \in pending : PostHandle(p)
  \/ \E p \in pending : PostRespond(p)
  \/ \E hdr \in Headers : Reject("GET", hdr)
  \/ \E hdr \in Headers : Reject("DELETE", hdr)
  \/ \E hdr \in Headers : Throw("GET", hdr)
  \/ \E hdr \in Headers : Throw("DELETE", hdr)
  \/ \E hdr \in Headers : Get(hdr)
  \/ \E hdr \in Headers : Delete(hdr)
  \/ \E hdr \in Headers : Health(hdr)

Spec == Init /\ [][Next]_vars

(* ----------------------------- dispatcher ------------------------------ *)

\* Identifiers in a get_user_profiles batch.
MaxBatch == 2

\* Identifiers in file_ids.
MaxFiles == 2

UserIds == {"U1", "U2"}

FileIds == {"F1", "F2"}

\* Error strings the remote platform supplies.
Errors == {"not_found", "ratelimited"}

\* JSON values of a remote payload, with their primitive type.
Str(v) == [type |-> "string", v |-> v]

Num(v) == [type |-> "number", v |-> v]

Bool(v) == [type |-> "boolean", v |-> v]

Arr(v) == [type |-> "array", v |-> v]

Obj(v) == [type |-> "object", v |-> v]

NoFields == [f \in {} |-> Str("")]

\* Strings of the model that z.string().email() accepts.
EmailStrings == {"ann@example.com"}

\* A value against a declared field type.
Conforms(val, ty) ==
  IF ty = "email" THEN val.type = "string" /\ val.v \in EmailStrings
  ELSE val.type = ty

\* Mutant: the object is passed through with its undeclared fields.
ParseObjectPassthrough(schema, obj) ==
  IF \A f \in DOMAIN obj \cap DOMAIN schema : Conforms(obj[f], schema[f])
  THEN [ok |-> TRUE, value |-> obj]
  ELSE [ok |-> FALSE, value |-> NoFields]

\* schema.parse(obj) of a z.object(...).strip() whose fields are all
\* optional: undeclared fields are dropped, a declared field that is present
\* with another type makes the parse throw.
ParseObject(schema, obj) ==
  LET keep == DOMAIN obj \cap DOMAIN schema
  IN IF \A f \in keep : Conforms(obj[f], schema[f])
     THEN [ok |-> TRUE, value |-> [f \in keep |-> obj[f]]]
     ELSE [ok |-> FALSE, value |-> NoFields]

ProfileSchema ==
  [display_name |-> "string", display_name_normalized |-> "string",
   email |-> "email", first_name |-> "string", last_name |-> "string",
   phone |-> "string", real_name |-> "string",
   real_name_normalized |-> "string", title |-> "string"]

ChannelSchema ==
  [conversation_host_id |-> "string", created |-> "number", id |-> "string",
   is_archived |-> "boolean", name |-> "string",
   name_normalized |-> "string", num_members |-> "number",
   purpose |-> "object", shared_team_ids |-> "array", topic |-> "object",
   updated |-> "number"]

ConversationsHistoryMessageSchema ==
  [reactions |-> "array", reply_count |-> "number", reply_users |-> "array",
   reply_users_count |-> "number", subtype |-> "string", text |-> "string",
   thread_ts |-> "string", ts |-> "string", type |-> "string",
   user |-> "string"]

MemberSchema ==
  [deleted |-> "boolean", id |-> "string", is_admin |-> "boolean",
   is_app_user |-> "boolean", is_bot |-> "boolean",
   is_connector_bot |-> "boolean", is_email_confirmed |-> "boolean",
   is_invited_user |-> "boolean", is_owner |-> "boolean",
   is_primary_owner |-> "boolean", is_restricted |-> "boolean",
   is_ultra_restricted |-> "boolean", is_workflow_bot |-> "boolean",
   name |-> "string", real_name |-> "string", team_id |-> "string",
   updated |-> "number"]

\* The object declared for messages in SearchMessagesResponseSchema.
SearchMessagesSchema == [matches |-> "array", pagination |-> "object"]

BaseResponseSchema ==
  [error |-> "string", ok |-> "boolean", response_metadata |-> "object"]

\* BaseResponseSchema.extend({field: type}).
Extend(base, field, ty) ==
  [f \in DOMAIN base \cup {field} |-> IF f = field THEN ty ELSE base[f]]

GetUserProfileResponseSchema == Extend(BaseResponseSchema, "profile", "object")

\* The operations with one remote call, and what each calls.
Api ==
  [slack_list_channels |-> "conversations.list",
   slack_post_message |-> "chat.postMessage",
   slack_reply_to_thread |-> "chat.postMessage",
   slack_add_reaction |-> "reactions.add",
   slack_get_channel_history |-> "conversations.history",
   slack_get_thread_replies |-> "conversations.replies",
   slack_get_users |-> "users.list",
   slack_get_user_profile |-> "users.profile.get",
   slack_search_messages |-> "search.messages",
   slack_list_files |-> "files.list",
   slack_get_file_info |-> "files.info",
   slack_delete_file |-> "files.delete",
   slack_send_file |-> "chat.postMessage"]

\* The prefix of the error thrown on a not-ok response.
Prefix ==
  [slack_list_channels |-> "Failed to list channels: ",
   slack_post_message |-> "Failed to post message: ",
   slack_reply_to_thread |-> "Failed to reply to thread: ",
   slack_add_reaction |-> "Failed to add reaction: ",
   slack_get_channel_history |-> "Failed to get channel history: ",
   slack_get_thread_replies |-> "Failed to get thread replies: ",
   slack_get_users |-> "Failed to get users: ",
   slack_get_user_profile |-> "Failed to get user profile: ",
   slack_search_messages |-> "Failed to search messages: ",
   slack_list_files |-> "Failed to list files: ",
   slack_get_file_info |-> "Failed to get file info: ",
   slack_delete_file |-> "Failed to delete file: ",
   slack_send_file |-> "Failed to send file: "]

\* The fixed text the side-effecting operations return.
Confirmation ==
  [slack_post_message |-> "Message posted successfully",
   slack_reply_to_thread |-> "Reply sent to thread successfully",
   slack_add_reaction |-> "Reaction added successfully",
   slack_delete_file |-> "File deleted successfully",
   slack_send_file |-> "File sent successfully"]

\* The response schema of each operation that returns remote data.
ResponseSchema ==
  [slack_list_channels |-> Extend(BaseResponseSchema, "channels", "array"),
   slack_get_channel_history |->
     Extend(BaseResponseSchema, "messages", "array"),
   slack_get_thread_replies |->
     Extend(BaseResponseSchema, "messages", "array"),
   slack_get_users |-> Extend(BaseResponseSchema, "members", "array"),
   slack_get_user_profile |-> GetUserProfileResponseSchema,
   slack_search_messages |-> Extend(BaseResponseSchema, "messages", "object")]

\* ListFilesResponseSchema and GetFileInfoResponseSchema.
FileResponseSchema ==
  [slack_list_files |-> Extend(BaseResponseSchema, "files", "array"),
   slack_get_file_info |-> Extend(BaseResponseSchema, "file", "object")]

\* The schema declared for the data of each response: for the elements of
\* its array, or for its object.
ElementSchema ==
  [slack_list_channels |-> ChannelSchema,
   slack_get_channel_history |-> ConversationsHistoryMessageSchema,
   slack_get_thread_replies |-> ConversationsHistoryMessageSchema,
   slack_get_users |-> MemberSchema,
   slack_search_messages |-> SearchMessagesSchema]

SchemaOf(op) ==
  IF op \in DOMAIN FileResponseSchema THEN FileResponseSchema[op]
  ELSE ResponseSchema[op]

SingleOps == DOMAIN Api

\* JSON.stringify of a validated value: the text of the value, without the
\* fields that are undefined.
JSONstringify(v) == <<"json", v>>

Text(s) == <<"text", s>>

(* The request schemas and schema.parse(request.params.arguments). *)

\* A number of an argument bag: the integer n, or n + 1/2.
Number(n) == [type |-> "number", v |-> n, half |-> FALSE]

Half(n) == [type |-> "number", v |-> n, half |-> TRUE]

\* Number.isInteger(x).
IsInteger(x) == ~x.half

\* Twice the value of a number, which is an integer.
Twice(x) == 2 * x.v + (IF x.half THEN 1 ELSE 0)

\* Strings of the model that match /^\d{10}\.\d{6}$/.
TimestampStrings == {"1234567890.123456"}

\* z.string(), z.number(), z.boolean(), z.array(z.string()): a field with
\* no check but its type.
z(type) ==
  [type |-> type, optional |-> FALSE, default |-> << >>, int |-> FALSE,
   min |-> << >>, max |-> << >>, regex |-> FALSE, values |-> {}]

zString == z("string")

zOptional(f) == [f EXCEPT !.optional = TRUE]

zDefault(f, v) == [f EXCEPT !.default = <<v>>]

zInt(f) == [f EXCEPT !.int = TRUE]

zMin(f, n) == [f EXCEPT !.min = <<n>>]

zMax(f, n) == [f EXCEPT !.max = <<n>>]

\* .regex(/^\d{10}\.\d{6}$/)
zRegex(f) == [f EXCEPT !.regex = TRUE]

zEnum(values) == [z("string") EXCEPT !.values = values]

\* The checks of one field on a value that is present.
Accepts(f, x) ==
  /\ x.type = f.type
  /\ x.type = "number" =>
       /\ f.int => IsInteger(x)
       /\ f.min # << >> => Twice(x) >= 2 * f.min[1]
       /\ f.max # << >> => Twice(x) <= 2 * f.max[1]
  /\ x.type = "array" =>
       /\ f.min # << >> => Len(x.v) >= f.min[1]
       /\ f.max # << >> => Len(x.v) <= f.max[1]
  /\ x.type = "string" =>
       /\ f.regex => x.v \in TimestampStrings
       /\ f.values # {} => x.v \in f.values

\* Mutant: a field left out is not given its default.
ParseRequestNoDefault(schema, params) ==
  IF "arguments" \notin DOMAIN params
  THEN [ok |-> FALSE, value |-> NoFields, issues |-> {"arguments"}]
  ELSE LET a == params.arguments
           given == DOMAIN a \cap DOMAIN schema
           missing == {f \in DOMAIN schema \ DOMAIN a :
                         ~schema[f].optional /\ schema[f].default = << >>}
           bad == {f \in given : ~Accepts(schema[f], a[f])}
       IN IF missing \cup bad = {}
          THEN [ok |-> TRUE, value |-> [f \in given |-> a[f]], issues |-> {}]
          ELSE [ok |-> FALSE, value |-> NoFields, issues |-> missing \cup bad]

\* schema.parse(request.params.arguments) of a request schema: an absent
\* bag and a missing required field are issues, so is a field whose checks
\* fail; undeclared keys are dropped and a missing field with a default
\* gets it.
ParseRequest(schema, params) ==
  IF "arguments" \notin DOMAIN params
  THEN [ok |-> FALSE, value |-> NoFields, issues |-> {"arguments"}]
  ELSE LET a == params.arguments
           given == DOMAIN a \cap DOMAIN schema
           defaulted == {f \in DOMAIN schema \ DOMAIN a :
                           schema[f].default # << >>}
           missing == {f \in DOMAIN schema \ DOMAIN a :
                         ~schema[f].optional /\ schema[f].default = << >>}
           bad == {f \in given : ~Accepts(schema[f], a[f])}
       IN IF missing \cup bad = {}
          THEN [ok |-> TRUE,
                value |-> [f \in given \cup defaulted |->
                             IF f \in given THEN a[f]
                             ELSE schema[f].default[1]],
                issues |-> {}]
          ELSE [ok |-> FALSE, value |-> NoFields, issues |-> missing \cup bad]

\* limit of ListChannels, GetChannelHistory and GetThreadReplies.
zLimit ==
  zDefault(zOptional(zMax(zMin(zInt(z("number")), 1), 1000)), Number(100))

\* limit of GetUsersRequestSchema: it declares no maximum.
zUsersLimit == zDefault(zOptional(zMin(zInt(z("number")), 1)), Number(100))

ListChannelsRequestSchema == [cursor |-> zOptional(zString), limit |-> zLimit]

PostMessageRequestSchema == [channel_id |-> zString, text |-> zString]

ReplyToThreadRequestSchema ==
  [channel_id |-> zString, text |-> zString, thread_ts |-> zRegex(zString)]

AddReactionRequestSchema ==
  [channel_id |-> zString, reaction |-> zString,
   timestamp |-> zRegex(zString)]

GetChannelHistoryRequestSchema ==
  [channel_id |-> zString, cursor |-> zOptional(zString), limit |-> zLimit]

GetThreadRepliesRequestSchema ==
  [channel_id |-> zString, thread_ts |-> zRegex(zString),
   cursor |-> zOptional(zString), limit |-> zLimit]

GetUsersRequestSchema ==
  [cursor |-> zOptional(zString), limit |-> zUsersLimit]

GetUserProfileRequestSchema == [user_id |-> zString]

GetUserProfilesRequestSchema ==
  [user_ids |-> zMax(zMin(z("array"), 1), 100)]

SearchMessagesRequestSchema ==
  [query |-> zDefault(zOptional(zString), Str("")),
   in_channel |-> zOptional(zString),
   in_group |-> zOptional(zString),
   in_dm |-> zOptional(zString),
   from_user |-> zOptional(zString),
   from_bot |-> zOptional(zString),
   highlight |-> zDefault(zOptional(z("boolean")), Bool("false")),
   sort |-> zDefault(zOptional(zEnum({"score", "timestamp"})), Str("score")),
   sort_dir |-> zDefault(zOptional(zEnum({"asc", "desc"})), Str("desc")),
   count |->
     zDefault(zOptional(zMax(zMin(zInt(z("number")), 1), 100)), Number(20)),
   page |->
     zDefault(zOptional(zMax(zMin(zInt(z("number")), 1), 100)), Number(1))]

\* ListFilesRequestSchema, GetFileInfoRequestSchema and
\* DeleteFileRequestSchema.
FileRequestSchema ==
  [slack_list_files |->
     [user |-> zOptional(zString), channel |-> zOptional(zString),
      types |-> zOptional(zString), ts_from |-> zOptional(zString),
      ts_to |-> zOptional(zString), cursor |-> zOptional(zString),
      limit |-> zLimit],
   slack_get_file_info |-> [file_id |-> zString],
   slack_delete_file |-> [file_id |-> zString]]

\* UploadFileRequestSchema and SendFileMessageRequestSchema, by the fields
\* their cases read.
UploadFileRequestSchema ==
  [filename |-> zString, content_base64 |-> zString,
   title |-> zOptional(zString), channel_id |-> zOptional(zString)]

SendFileMessageRequestSchema ==
  [channel_id |-> zString, text |-> zOptional(zString),
   file_ids |-> z("array")]

\* The request schema each case of the switch parses with.
RequestSchema(op) ==
  CASE op = "slack_list_channels" -> ListChannelsRequestSchema
    [] op = "slack_post_message" -> PostMessageRequestSchema
    [] op = "slack_reply_to_thread" -> ReplyToThreadRequestSchema
    [] op = "slack_add_reaction" -> AddReactionRequestSchema
    [] op = "slack_get_channel_history" -> GetChannelHistoryRequestSchema
    [] op = "slack_get_thread_replies" -> GetThreadRepliesRequestSchema
    [] op = "slack_get_users" -> GetUsersRequestSchema
    [] op = "slack_get_user_profile" -> GetUserProfileRequestSchema
    [] op = "slack_get_user_profiles" -> GetUserProfilesRequestSchema
    [] op = "slack_search_messages" -> SearchMessagesRequestSchema
    [] op = "slack_upload_file" -> UploadFileRequestSchema
    [] op = "slack_send_file" -> SendFileMessageRequestSchema
    [] OTHER -> FileRequestSchema[op]

(* The tool catalog. *)

\* zodToJsonSchema of one field: its JSON type and its checks.
JsonField(f) ==
  [type |-> IF f.type = "number" /\ f.int THEN "integer" ELSE f.type,
   minimum |-> IF f.type = "number" THEN f.min ELSE << >>,
   maximum |-> IF f.type = "number" THEN f.max ELSE << >>,
   minItems |-> IF f.type = "array" THEN f.min ELSE << >>,
   maxItems |-> IF f.type = "array" THEN f.max ELSE << >>,
   pattern |-> f.regex, enum |-> f.values, default |-> f.default]

\* zodToJsonSchema(schema) of a z.object: its properties, and as required
\* the fields that are neither optional nor defaulted.
zodToJsonSchema(schema) ==
  [type |-> "object",
   properties |-> [f \in DOMAIN schema |-> JsonField(schema[f])],
   required |-> {f \in DOMAIN schema :
                   ~schema[f].optional /\ schema[f].default = << >>}]

Tool(name, description, schema) ==
  [name |-> name, description |-> description,
   inputSchema |-> zodToJsonSchema(schema)]

\* The array the ListToolsRequestSchema handler returns, lines 140-217.
Tools ==
  <<Tool("slack_list_channels",
         "List public channels in the workspace with pagination",
         ListChannelsRequestSchema),
    Tool("slack_post_message",
         "Post a new message to a Slack channel (optionally with files)",
         PostMessageRequestSchema),
    Tool("slack_reply_to_thread",
         "Reply to a specific message thread in Slack",
         ReplyToThreadRequestSchema),
    Tool("slack_add_reaction", "Add a reaction emoji to a message",
         AddReactionRequestSchema),
    Tool("slack_get_channel_history", "Get recent messages from a channel",
         GetChannelHistoryRequestSchema),
    Tool("slack_get_thread_replies", "Get all replies in a message thread",
         GetThreadRepliesRequestSchema),
    Tool("slack_get_users",
         "Retrieve basic profile information of all users in the workspace",
         GetUsersRequestSchema),
    Tool("slack_get_user_profile", "Get a user's profile information",
         GetUserProfileRequestSchema),
    Tool("slack_get_user_profiles",
         "Get multiple users profile information in bulk",
         GetUserProfilesRequestSchema),
    Tool("slack_search_messages", "Search for messages in the workspace",
         SearchMessagesRequestSchema),
    Tool("slack_upload_file",
         "Upload a file and optionally share it to a channel or DM",
         UploadFileRequestSchema),
    Tool("slack_list_files", "List files visible to the authenticated user",
         FileRequestSchema.slack_list_files),
    Tool("slack_get_file_info", "Get metadata about a specific file",
         FileRequestSchema.slack_get_file_info),
    Tool("slack_delete_file", "Delete a file the bot owns",
         FileRequestSchema.slack_delete_file),
    Tool("slack_send_file", "Send existing files in a message",
         SendFileMessageRequestSchema)>>

\* No tools/list query has been answered.
NoListing == [tools |-> << >>]

(* The remote platform: what a call can settle to. *)

\* The data field of each remote method's response, and its type.
DataField ==
  [f \in {"conversations.list", "conversations.history",
          "conversations.replies", "users.list", "users.profile.get",
          "search.messages", "files.list", "files.info",
          "chat.postMessage"} |->
     CASE f = "conversations.list" -> <<"channels", "array">>
       [] f = "conversations.history" -> <<"messages", "array">>
       [] f = "conversations.replies" -> <<"messages", "array">>
       [] f = "users.list" -> <<"members", "array">>
       [] f = "users.profile.get" -> <<"profile", "object">>
       [] f = "search.messages" -> <<"messages", "object">>
       [] f = "files.list" -> <<"files", "array">>
       [] f = "files.info" -> <<"file", "object">>
       [] OTHER -> <<"ts", "string">>]

\* An ok response: ok, the data field when has (typed right unless bad), and
\* a field no schema declares.
OkData(api, has, bad) ==
  LET d == IF api \in DOMAIN DataField /\ has
           THEN {DataField[api][1]} ELSE {}
  IN [f \in {"ok", "warning"} \cup d |->
        IF f = "ok" THEN Bool("true")
        ELSE IF f = "warning" THEN Str("missing_charset")
        ELSE IF bad THEN Number("7")
        ELSE [type |-> DataField[api][2], v |-> DataField[api][1]]]

\* Profiles users.profile.get returns: one with a field ProfileSchema does
\* not declare, one whose email is not an e-mail address.
Profiles ==
  {[real_name |-> Str("Ann"), avatar_hash |-> Str("g123")],
   [real_name |-> Str("Bob"), email |-> Str("")]}

ImageTypes == {"image/png"}

\* Files files.info returns. For F1: an image with a name, a titled text
\* file, a file with no media type. For F2: an image with a title and a
\* name, an image with neither.
Files(id) ==
  IF id = "F1"
  THEN {[id |-> Str(id), name |-> Str("a.png"), mimetype |-> Str("image/png"),
         url_private |-> Str("https://files.slack.com/" \o id)],
        [id |-> Str(id), name |-> Str("a.txt"), title |-> Str("notes"),
         mimetype |-> Str("text/plain"),
         url_private |-> Str("https://files.slack.com/" \o id)],
        [id |-> Str(id), name |-> Str("blob")]}
  ELSE {[id |-> Str(id), name |-> Str("b.png"), title |-> Str("chart"),
         mimetype |-> Str("image/png"),
         url_private |-> Str("https://files.slack.com/" \o id)],
        [id |-> Str(id), mimetype |-> Str("image/png"),
         url_private |-> Str("https://files.slack.com/" \o id)]}

\* What the data of a response holds (an array: its element): a value with
\* a field the schema does not declare, and one with a declared field of
\* another type.
Elements ==
  [f \in {"conversations.list", "conversations.history",
          "conversations.replies", "users.list", "search.messages"} |->
     CASE f = "conversations.list" ->
            {[id |-> Str("C1"), name |-> Str("general"),
              is_member |-> Bool("true")],
             [id |-> Str("C1"), num_members |-> Str("12")]}
       [] f = "users.list" ->
            {[id |-> Str("U1"), name |-> Str("ann"), color |-> Str("9f69e7")],
             [id |-> Str("U1"), deleted |-> Str("no")]}
       [] f = "search.messages" ->
            {[matches |-> Arr("matches"), total |-> Num("3")],
             [matches |-> Str("none")]}
       [] OTHER ->
            {[ts |-> Str("1234567890.123456"), text |-> Str("hi"),
              team |-> Str("T1")],
             [text |-> Str("hi"), reply_count |-> Str("2")]}]

Outcome(st, error, data, sub) ==
  [st |-> st, error |-> error, data |-> data, sub |-> sub]

\* Every way a remote call can settle: it throws, it answers not-ok with or
\* without an error string, or it answers ok.
Outcomes(api, arg) ==
  {Outcome("thrown", e, NoFields, NoFields) : e \in Errors}
  \cup {Outcome("notok", e, NoFields, NoFields) : e \in Errors \cup {Undefined}}
  \cup (IF api = "users.profile.get"
        THEN {Outcome("ok", Undefined, OkData(api, TRUE, FALSE), p) :
                p \in Profiles}
             \cup {Outcome("ok", Undefined, OkData(api, FALSE, FALSE),
                           NoFields)}
        ELSE IF api = "files.info"
        THEN {Outcome("ok", Undefined, OkData(api, TRUE, FALSE), f) :
                f \in Files(arg)}
             \cup {Outcome("ok", Undefined, OkData(api, FALSE, FALSE),
                           NoFields)}
        ELSE IF api \in DOMAIN Elements
        THEN {Outcome("ok", Undefined, OkData(api, TRUE, FALSE), e) :
                e \in Elements[api]}
             \cup {Outcome("ok", Undefined, OkData(api, TRUE, TRUE), NoFields),
                   Outcome("ok", Undefined, OkData(api, FALSE, FALSE),
                           NoFields)}
        ELSE {Outcome("ok", Undefined, OkData(api, TRUE, b), NoFields) :
                b \in BOOLEAN})

\* A remote call as issued.
Call(api, arg, blocks) ==
  [api |-> api, arg |-> arg, blocks |-> blocks, params |-> NoFields,
   st |-> "pending", error |-> Undefined, data |-> NoFields,
   sub |-> NoFields]

\* A remote call issued with the parameters of its one argument object.
CallWith(api, params) == [Call(api, "arg", << >>) EXCEPT !.params = params]

Settled(c, o) ==
  [c EXCEPT !.st = o.st, !.error = o.error, !.data = o.data, !.sub = o.sub]

AllSettled(calls) == \A i \in 1..Len(calls) : calls[i].st # "pending"

SeqsUpTo(S, lo, hi) == UNION {[1..n -> S] : n \in lo..hi}

(* The requests a client sends, and the parameters of the remote calls. *)

\* How far around each bound of a number the arguments are drawn.
Margin == 1

\* Mutant: the switch has no case for slack_send_file.
ToolNamesWithoutSend ==
  {"slack_list_channels", "slack_post_message", "slack_reply_to_thread",
   "slack_add_reaction", "slack_get_channel_history",
   "slack_get_thread_replies", "slack_get_users", "slack_get_user_profile",
   "slack_get_user_profiles", "slack_search_messages", "slack_upload_file",
   "slack_list_files", "slack_get_file_info", "slack_delete_file"}

\* The names of the cases of the switch, lines 227-545.
ToolNames ==
  {"slack_list_channels", "slack_post_message", "slack_reply_to_thread",
   "slack_add_reaction", "slack_get_channel_history",
   "slack_get_thread_replies", "slack_get_users", "slack_get_user_profile",
   "slack_get_user_profiles", "slack_search_messages", "slack_upload_file",
   "slack_list_files", "slack_get_file_info", "slack_delete_file",
   "slack_send_file"}

\* Names a client can send that are no case of the switch.
UnknownNames == {"slack_unknown", "constructor", ""}

\* A key the argument bag does not hold.
Absent == [type |-> "undefined"]

\* The bag of the keys that are present.
Bag(r) == [f \in {g \in DOMAIN r : r[g].type # "undefined"} |-> r[f]]

\* Integers within Margin of lo and of hi.
Around(lo, hi) ==
  ((lo - Margin)..(lo + Margin)) \cup ((hi - Margin)..(hi + Margin))

\* What a client can send for a number declared with bounds lo and hi and
\* default d: integers around the bounds, the default, numbers that are no
\* integers, a string, nothing.
Numbers(lo, hi, d) ==
  {Number(n) : n \in Around(lo, hi) \cup {d}}
  \cup {Half(lo - 1), Half(hi - 1), Half(hi), Str("10"), Absent}

Good == Str("1234567890.123456")

\* The argument bags drawn for each operation, Absent marking a key left
\* out.
Arguments(op) ==
  CASE op = "slack_list_channels" ->
         [cursor : {Absent, Str("dGVhbQ==")}, limit : Numbers(1, 1000, 100)]
    [] op = "slack_post_message" ->
         [channel_id : {Absent, Str("C1")},
          text : {Absent, Str("hi"), Str("bye"), Number(1)}]
    [] op = "slack_reply_to_thread" ->
         [channel_id : {Str("C1")}, text : {Str("hi"), Str("bye")},
          thread_ts : {Absent, Good, Str("1234567890")}]
    [] op = "slack_add_reaction" ->
         [channel_id : {Str("C1")}, reaction : {Absent, Str("eyes")},
          timestamp : {Good, Str("1234567890.12345")}]
    [] op = "slack_get_channel_history" ->
         [channel_id : {Absent, Str("C1")}, limit : Numbers(1, 1000, 100)]
    [] op = "slack_get_thread_replies" ->
         [channel_id : {Str("C1")}, thread_ts : {Good, Str("12345.678")},
          limit : Numbers(1, 1000, 100)]
    [] op = "slack_get_users" ->
         [cursor : {Absent, Str("dGVhbQ==")}, limit : Numbers(1, 1000, 100)]
    [] op = "slack_get_user_profile" ->
         [user_id : {Absent, Str("U1"), Number(1)},
          include_labels : {Absent, Bool("true")}]
    [] op = "slack_search_messages" ->
         [query : {Absent, Str(""), Str("hello")},
          in_channel : {Absent, Str(""), Str("general")},
          in_group : {Absent, Str(""), Str("staff")},
          in_dm : {Absent, Str(""), Str("U456")},
          from_user : {Absent, Str(""), Str("U123")},
          from_bot : {Absent, Str(""), Str("deploybot")},
          count : {Absent}, page : {Absent}]
         \cup [query : {Str("hello")}, from_user : {Absent},
               sort : {Absent, Str("timestamp"), Str("newest")},
               count : Numbers(1, 100, 20), page : Numbers(1, 100, 1)]
    [] op = "slack_list_files" ->
         [channel : {Absent, Str("C1")}, limit : {Absent, Number(10)}]
    [] op = "slack_upload_file" ->
         [filename : {Absent, Str("a.txt")},
          content_base64 : {Str("aGk="), Str("aGVsbG8=")},
          title : {Absent, Str("notes")},
          channel_id : {Absent, Str("C1")}]
    [] OTHER -> [file_id : {Absent, Str("F1")}]

\* request.params of a tools/call request for an operation: with a bag, or
\* without arguments.
Requests(op) ==
  {[name |-> op]}
  \cup {[name |-> op, arguments |-> Bag(r)] : r \in Arguments(op)}

\* request.params of slack_get_user_profiles: a batch of up to MaxBatch
\* identifiers, and one of more than the schema allows.
ProfilesRequests ==
  {[name |-> "slack_get_user_profiles"]}
  \cup {[name |-> "slack_get_user_profiles",
         arguments |-> [user_ids |-> Arr(ids)]] :
          ids \in SeqsUpTo(UserIds, 0, MaxBatch)
                    \cup {[i \in 1..101 |-> "U1"]}}

\* A validated argument is given and is not the empty string.
Truthy(args, f) == f \in DOMAIN args /\ args[f].v # ""

\* The clause appended for one filter, lines 414-428.
Clause(args, f, open, close) ==
  IF Truthy(args, f) THEN open \o args[f].v \o close ELSE ""

\* Mutant: the clause of from_user comes before the clause of in_channel.
SearchQueryFromFirst(args) ==
  args.query.v
    \o Clause(args, "from_user", " from:<@", ">")
    \o Clause(args, "in_channel", " in:", "")
    \o Clause(args, "in_group", " in:", "")
    \o Clause(args, "in_dm", " in:<@", ">")
    \o Clause(args, "from_bot", " from:", "")

\* The query string of slack_search_messages, lines 413-428.
SearchQuery(args) ==
  args.query.v
    \o Clause(args, "in_channel", " in:", "")
    \o Clause(args, "in_group", " in:", "")
    \o Clause(args, "in_dm", " in:<@", ">")
    \o Clause(args, "from_user", " from:<@", ">")
    \o Clause(args, "from_bot", " from:", "")

\* For each remote parameter that is taken from an argument, the argument.
ParamNames ==
  [slack_list_channels |-> [limit |-> "limit", cursor |-> "cursor"],
   slack_post_message |-> [channel |-> "channel_id", text |-> "text"],
   slack_reply_to_thread |->
     [channel |-> "channel_id", thread_ts |-> "thread_ts", text |-> "text"],
   slack_add_reaction |->
     [channel |-> "channel_id", timestamp |-> "timestamp",
      name |-> "reaction"],
   slack_get_channel_history |->
     [channel |-> "channel_id", limit |-> "limit", cursor |-> "cursor"],
   slack_get_thread_replies |->
     [channel |-> "channel_id", ts |-> "thread_ts", limit |-> "limit",
      cursor |-> "cursor"],
   slack_get_users |-> [limit |-> "limit", cursor |-> "cursor"],
   slack_get_user_profile |-> [user |-> "user_id"],
   slack_search_messages |->
     [highlight |-> "highlight", sort |-> "sort", sort_dir |-> "sort_dir",
      count |-> "count", page |-> "page"],
   slack_list_files |->
     [user |-> "user", channel |-> "channel", types |-> "types",
      ts_from |-> "ts_from", ts_to |-> "ts_to", cursor |-> "cursor",
      limit |-> "limit"],
   slack_get_file_info |-> [file |-> "file_id"],
   slack_delete_file |-> [file |-> "file_id"]]

\* The object given to the remote method: the parameters taken from the
\* arguments that are defined, and the ones the case sets itself.
RemoteParams(op, args) ==
  LET m == ParamNames[op]
      taken == {k \in DOMAIN m : m[k] \in DOMAIN args}
      set == IF op = "slack_list_channels" THEN {"types"}
             ELSE IF op = "slack_search_messages" THEN {"query"}
             ELSE {}
  IN [k \in taken \cup set |->
        IF k \in taken THEN args[m[k]]
        ELSE IF k = "types" THEN Str("public_channel")
        ELSE Str(SearchQuery(args))]

(* The handler. *)

\* An Error object with its message, as the parts of the template literal.
Error(parts) == [isError |-> TRUE, message |-> parts]

\* Mutant: the catch replaces every error by the generic one.
HandlerCatchGeneric(err) == <<"Unknown error occurred">>

\* catch (error) at the end of the handler: the message is rethrown.
HandlerCatch(err) ==
  IF err.isError THEN err.message ELSE <<"Unknown error occurred">>

Succeed(text) == [kind |-> "ok", text |-> text, message |-> << >>]

Fail(err) == [kind |-> "error", text |-> << >>, message |-> HandlerCatch(err)]

\* GetUserProfileResponseSchema.parse(response): the response's own fields,
\* then the profile against ProfileSchema.
ParseProfileResponse(r) ==
  LET top == ParseObject(GetUserProfileResponseSchema, r.data)
      prof == ParseObject(ProfileSchema, r.sub)
  IN IF ~top.ok THEN [ok |-> FALSE, has |-> FALSE, profile |-> NoFields]
     ELSE IF "profile" \notin DOMAIN top.value
     THEN [ok |-> TRUE, has |-> FALSE, profile |-> NoFields]
     ELSE [ok |-> prof.ok, has |-> prof.ok, profile |-> prof.value]

ZodError == "ZodError"

UnknownError == "Unknown error"

\* One member of profilePromises, lines 374-396.
profileMember(userId, r) ==
  IF r.st = "thrown" THEN [user_id |-> userId, error |-> r.error]
  ELSE IF r.st = "notok"
  THEN [user_id |-> userId,
        error |-> IF r.error = Undefined THEN UnknownError ELSE r.error]
  ELSE LET p == ParseProfileResponse(r)
       IN IF ~p.ok THEN [user_id |-> userId, error |-> ZodError]
          ELSE IF p.has THEN [user_id |-> userId, profile |-> p.profile]
          ELSE [user_id |-> userId]

\* Mutant: the members' values in completion order.
profileResultsByCompletion(ids, calls, ord) ==
  [k \in 1..Len(ids) |->
     IF k <= Len(ord) THEN profileMember(ids[ord[k]], calls[ord[k]])
     ELSE profileMember(ids[k], calls[k])]

\* Promise.all(profilePromises): the members' values in input order.
profileResults(ids, calls, ord) ==
  [i \in 1..Len(ids) |-> profileMember(ids[i], calls[i])]

\* GetUserProfilesResponseSchema.parse({profiles: results}).
ParseProfilesResponse(results) ==
  LET el(i) == results[i]
      prof(i) == IF "profile" \in DOMAIN el(i)
                 THEN ParseObject(ProfileSchema, el(i).profile)
                 ELSE [ok |-> TRUE, value |-> NoFields]
      out(i) == [f \in DOMAIN el(i) \cap {"user_id", "profile", "error"} |->
                   IF f = "profile" THEN prof(i).value ELSE el(i)[f]]
  IN IF \A i \in 1..Len(results) :
          "user_id" \in DOMAIN el(i) /\ prof(i).ok
     THEN [ok |-> TRUE,
           value |-> [profiles |-> [i \in 1..Len(results) |-> out(i)]]]
     ELSE [ok |-> FALSE, value |-> [profiles |-> << >>]]

\* Mutant: the alternative text prefers the name to the title.
BlockNameFirst(file) ==
  IF "mimetype" \in DOMAIN file /\ file.mimetype.v \in ImageTypes
  THEN [type |-> "image", image_url |-> file.url_private.v,
        alt_text |-> IF "name" \in DOMAIN file THEN file.name.v
                     ELSE IF "title" \in DOMAIN file THEN file.title.v
                     ELSE "image"]
  ELSE [type |-> "file", external_id |-> file.id.v, source |-> "remote"]

\* The block of one file, lines 122-134.
Block(file) ==
  IF "mimetype" \in DOMAIN file /\ file.mimetype.v \in ImageTypes
  THEN [type |-> "image", image_url |-> file.url_private.v,
        alt_text |-> IF "title" \in DOMAIN file THEN file.title.v
                     ELSE IF "name" \in DOMAIN file THEN file.name.v
                     ELSE "image"]
  ELSE [type |-> "file", external_id |-> file.id.v, source |-> "remote"]

\* !info.ok || !info.file
InfoFailed(c) == c.st # "ok" \/ "file" \notin DOMAIN c.data

\* Mutant: a failed info is skipped instead of thrown.
buildBlocksSkipFailed(ids, calls) ==
  [ok |-> TRUE,
   blocks |-> [i \in 1..Len(ids) |->
                 IF InfoFailed(calls[i])
                 THEN [type |-> "file", external_id |-> ids[i],
                       source |-> "remote"]
                 ELSE Block(calls[i].sub)],
   err |-> Error(<< >>)]

\* infos.map(...), lines 116-135: the first failing info throws.
buildBlocks(ids, calls) ==
  LET bad == {i \in 1..Len(ids) : InfoFailed(calls[i])}
      first == CHOOSE i \in bad : \A j \in bad : i <= j
  IN IF bad # {}
     THEN [ok |-> FALSE, blocks |-> << >>,
           err |-> Error(<<"Failed to fetch file info for ", ids[first],
                           ": ", calls[first].error>>)]
     ELSE [ok |-> TRUE,
           blocks |-> [i \in 1..Len(ids) |-> Block(calls[i].sub)],
           err |-> Error(<< >>)]

\* Mutant: every operation returns the JSON of the remote response.
AfterCallPayload(op, c) ==
  IF c.st = "thrown" THEN [res |-> Fail(Error(<<c.error>>)), parses |-> 0]
  ELSE IF c.st = "notok"
  THEN [res |-> Fail(Error(<<Prefix[op], c.error>>)), parses |-> 0]
  ELSE [res |-> Succeed(JSONstringify([top |-> c.data])), parses |-> 0]

\* After the single remote call of an operation settled, lines 236-243 and
\* the like: a not-ok response throws, a data response is validated.
AfterCall(op, c) ==
  IF c.st = "thrown" THEN [res |-> Fail(Error(<<c.error>>)), parses |-> 0]
  ELSE IF c.st = "notok"
  THEN [res |-> Fail(Error(<<Prefix[op], c.error>>)), parses |-> 0]
  ELSE IF op \in DOMAIN Confirmation
  THEN [res |-> Succeed(Text(Confirmation[op])), parses |-> 0]
  ELSE IF op = "slack_get_user_profile"
  THEN LET p == ParseProfileResponse(c)
           top == ParseObject(GetUserProfileResponseSchema, c.data).value
       IN IF p.ok
          THEN [res |-> Succeed(JSONstringify(
                          [top |-> top, profile |-> p.profile])),
                parses |-> 1]
          ELSE [res |-> Fail(Error(<<ZodError>>)), parses |-> 1]
  ELSE LET p == ParseObject(SchemaOf(op), c.data)
           nested == /\ op \in DOMAIN ElementSchema
                     /\ p.ok
                     /\ DataField[Api[op]][1] \in DOMAIN p.value
           e == ParseObject(ElementSchema[op], c.sub)
       IN IF ~p.ok \/ (nested /\ ~e.ok)
          THEN [res |-> Fail(Error(<<ZodError>>)), parses |-> 1]
          ELSE IF nested
          THEN [res |-> Succeed(JSONstringify(
                          [top |-> p.value, element |-> e.value])),
                parses |-> 1]
          ELSE [res |-> Succeed(JSONstringify([top |-> p.value])),
                parses |-> 1]

NoResult == [kind |-> "none", text |-> << >>, message |-> << >>]

NoInvocation ==
  [op |-> "none", params |-> [name |-> "none"], args |-> NoFields,
   hasFiles |-> FALSE, ids |-> << >>, pc |-> "idle"]

\* The handler is entered: the server serves one invocation after another.
\* params is request.params, args the validated arguments.
Begin(op, params, args, hasFiles, ids, pc, calls) ==
  /\ inv.pc = "idle"
  /\ inv' = [op |-> op, params |-> params, args |-> args,
             hasFiles |-> hasFiles, ids |-> ids, pc |-> pc]
  /\ rc' = calls
  /\ order' = << >>
  /\ res' = NoResult
  /\ parsed' = 0
  /\ UNCHANGED <<httpVars, req, proc, listed>>

\* Mutant: the handler calls the remote platform before it throws.
RefuseAfterCall(op, params, err) ==
  /\ inv.pc = "idle"
  /\ inv' = [op |-> op, params |-> params, args |-> NoFields,
             hasFiles |-> FALSE, ids |-> << >>, pc |-> "rejected"]
  /\ rc' = <<Call("auth.test", "arg", << >>)>>
  /\ order' = << >>
  /\ res' = Fail(err)
  /\ parsed' = 0
  /\ UNCHANGED <<httpVars, req, proc, listed>>

\* The handler throws before it has called the remote platform.
Refuse(op, params, err) ==
  /\ inv.pc = "idle"
  /\ inv' = [op |-> op, params |-> params, args |-> NoFields,
             hasFiles |-> FALSE, ids |-> << >>, pc |-> "rejected"]
  /\ rc' = << >>
  /\ order' = << >>
  /\ res' = Fail(err)
  /\ parsed' = 0
  /\ UNCHANGED <<httpVars, req, proc, listed>>

\* default: of the switch, line 548.
InvokeUnknown(name) ==
  /\ name \notin ToolNames
  /\ Refuse(name, [name |-> name], Error(<<"Unknown tool: ", name>>))

\* A case of the switch with one remote call: the arguments are parsed,
\* then the call is issued with the parameters the case builds
\* (slack_post_message: without file_ids).
InvokeSingle(op, params) ==
  /\ op \in SingleOps \ {"slack_send_file"}
  /\ LET p == ParseRequest(RequestSchema(op), params)
     IN IF p.ok
        THEN Begin(op, params, p.value, FALSE, << >>, "call",
                   <<CallWith(Api[op], RemoteParams(op, p.value))>>)
        ELSE Refuse(op, params, Error(<<ZodError>>))

\* slack_post_message with file_ids, or slack_send_file: the files.info
\* calls are issued together; with no identifier the message is posted.
InvokeFiles(op, ids) ==
  LET args == [channel_id |-> Str("C1"), text |-> Str("hi"),
               file_ids |-> Arr(ids)]
      params == [name |-> op, arguments |-> args]
  IN /\ op \in {"slack_post_message", "slack_send_file"}
     /\ IF Len(ids) = 0
        THEN Begin(op, params, args, TRUE, ids, "call",
                   <<Call(Api[op], "arg", << >>)>>)
        ELSE Begin(op, params, args, TRUE, ids, "files",
                   [i \in 1..Len(ids) |-> Call("files.info", ids[i], << >>)])

\* slack_get_user_profiles: the arguments are parsed, then one
\* users.profile.get is issued per identifier.
InvokeProfiles(params) ==
  LET p == ParseRequest(GetUserProfilesRequestSchema, params)
      ids == p.value.user_ids.v
  IN IF p.ok
     THEN Begin("slack_get_user_profiles", params, p.value, FALSE, ids,
                "batch",
                [i \in 1..Len(ids) |->
                   Call("users.profile.get", ids[i], << >>)])
     ELSE Refuse("slack_get_user_profiles", params, Error(<<ZodError>>))

\* A users.profile.get of the batch settles; the invocation resumes once
\* every member has settled, lines 398-405.
SettleProfile(i, o) ==
  /\ inv.pc = "batch"
  /\ i \in 1..Len(rc)
  /\ rc[i].st = "pending"
  /\ o \in Outcomes(rc[i].api, rc[i].arg)
  /\ LET calls == [rc EXCEPT ![i] = Settled(@, o)]
         ord == Append(order, i)
         data == ParseProfilesResponse(profileResults(inv.ids, calls, ord))
         oks == Cardinality({j \in 1..Len(calls) : calls[j].st = "ok"})
     IN /\ rc' = calls
        /\ order' = ord
        /\ IF AllSettled(calls)
           THEN /\ inv' = [inv EXCEPT !.pc = "done"]
                /\ parsed' = oks + 1
                /\ res' = IF data.ok THEN Succeed(JSONstringify(data.value))
                          ELSE Fail(Error(<<ZodError>>))
           ELSE UNCHANGED <<inv, parsed, res>>
  /\ UNCHANGED <<httpVars, req, proc, listed>>

\* A files.info of buildBlocksFromFileIds settles, lines 113-115: a thrown
\* error rejects Promise.all at once; when all have answered, the blocks are
\* built and chat.postMessage is called.
SettleFileInfo(i, o) ==
  /\ inv.pc = "files"
  /\ i \in 1..Len(rc)
  /\ rc[i].st = "pending"
  /\ o \in Outcomes(rc[i].api, rc[i].arg)
  /\ LET calls == [rc EXCEPT ![i] = Settled(@, o)]
         b == buildBlocks(inv.ids, calls)
     IN /\ order' = Append(order, i)
        /\ IF o.st = "thrown"
           THEN /\ rc' = calls
                /\ inv' = [inv EXCEPT !.pc = "done"]
                /\ res' = Fail(Error(<<o.error>>))
           ELSE IF ~AllSettled(calls)
           THEN /\ rc' = calls
                /\ UNCHANGED <<inv, res>>
           ELSE IF b.ok
           THEN /\ rc' = Append(calls, Call(Api[inv.op], "arg", b.blocks))
                /\ inv' = [inv EXCEPT !.pc = "call"]
                /\ UNCHANGED res
           ELSE /\ rc' = calls
                /\ inv' = [inv EXCEPT !.pc = "done"]
                /\ res' = Fail(b.err)
  /\ UNCHANGED <<parsed, httpVars, req, proc, listed>>

\* Mutant: a call that failed is issued once more.
SettleCallRetry(o) ==
  /\ inv.pc = "call"
  /\ rc[Len(rc)].st = "pending"
  /\ o \in Outcomes(rc[Len(rc)].api, rc[Len(rc)].arg)
  /\ LET c == Settled(rc[Len(rc)], o)
         a == AfterCall(inv.op, c)
         again == o.st # "ok" /\ Len(rc) = 1
     IN /\ rc' = IF again
                 THEN <<c, [c EXCEPT !.st = "pending", !.error = Undefined]>>
                 ELSE [rc EXCEPT ![Len(rc)] = c]
        /\ order' = Append(order, Len(rc))
        /\ inv' = IF again THEN inv ELSE [inv EXCEPT !.pc = "done"]
        /\ res' = IF again THEN res ELSE a.res
        /\ parsed' = IF again THEN parsed ELSE a.parses
  /\ UNCHANGED <<httpVars, req, proc, listed>>

\* The remote call of a single-call operation settles.
SettleCall(o) ==
  /\ inv.pc = "call"
  /\ rc[Len(rc)].st = "pending"
  /\ o \in Outcomes(rc[Len(rc)].api, rc[Len(rc)].arg)
  /\ LET c == Settled(rc[Len(rc)], o)
         a == AfterCall(inv.op, c)
     IN /\ rc' = [rc EXCEPT ![Len(rc)] = c]
        /\ order' = Append(order, Len(rc))
        /\ inv' = [inv EXCEPT !.pc = "done"]
        /\ res' = a.res
        /\ parsed' = a.parses
  /\ UNCHANGED <<httpVars, req, proc, listed>>

\* A files.info still outstanding after the invocation failed settles:
\* nobody awaits it any more.
SettleLate(i, o) ==
  /\ inv.pc = "done"
  /\ i \in 1..Len(rc)
  /\ rc[i].st = "pending"
  /\ o \in Outcomes(rc[i].api, rc[i].arg)
  /\ rc' = [rc EXCEPT ![i] = Settled(@, o)]
  /\ order' = Append(order, i)
  /\ UNCHANGED <<inv, res, parsed, httpVars, req, proc, listed>>

(* slack_upload_file, lines 449-486. *)

\* Buffer.from(content_base64, 'base64').length for the contents drawn.
ByteLength == [c \in {"aGk=", "aGVsbG8="} |-> IF c = "aGk=" THEN 2 ELSE 5]

UploadUrl == "https://files.slack.com/upload/v1/abc"

\* HTTP statuses of a refused PUT.
PutStatuses == {"403", "500"}

\* UploadFileResponseSchema.
UploadFileResponseSchema == Extend(BaseResponseSchema, "file", "object")

\* How each step of an upload can settle. Reserving: thrown, not-ok, ok
\* with the URL and the identifier, ok without one of them. The PUT: the
\* fetch rejects, or answers with a status that is not ok, or is ok.
\* Completing: thrown, not-ok, ok with the files the platform lists.
UploadOutcomes(api) ==
  {Outcome("thrown", e, NoFields, NoFields) : e \in Errors}
  \cup
  (CASE api = "files.getUploadURLExternal" ->
          {Outcome("notok", e, NoFields, NoFields) : e \in Errors}
          \cup {Outcome("ok", Undefined,
                        [f \in {"ok"} \cup fs |->
                           IF f = "ok" THEN Bool("true")
                           ELSE IF f = "upload_url" THEN Str(UploadUrl)
                           ELSE Str(id)],
                        NoFields) :
                  fs \in {{"upload_url", "file_id"}, {"upload_url"},
                          {"file_id"}},
                  id \in FileIds}
     [] api = "PUT" ->
          {Outcome("notok", s, NoFields, NoFields) : s \in PutStatuses}
          \cup {Outcome("ok", Undefined, [ok |-> Bool("true")], NoFields)}
     [] OTHER ->
          {Outcome("notok", e, NoFields, NoFields) : e \in Errors}
          \cup {Outcome("ok", Undefined,
                        [ok |-> Bool("true"), files |-> Arr("files"),
                         file |-> Obj("F9")],
                        NoFields)})

\* The parameters of files.getUploadURLExternal, lines 452-455.
ReserveParams(args) ==
  [filename |-> args.filename,
   length |-> Number(ByteLength[args.content_base64.v])]

\* The parameters of files.completeUploadExternal, lines 467-475.
CompleteParams(args, reserve) ==
  LET given == {"channel_id"} \cap DOMAIN args
  IN [f \in {"id", "title"} \cup given |->
        IF f = "id" THEN reserve.data.file_id
        ELSE IF f = "title"
        THEN IF "title" \in DOMAIN args THEN args.title ELSE args.filename
        ELSE args.channel_id]

\* The case is entered: the arguments are parsed and the slot is reserved.
InvokeUpload(params) ==
  LET p == ParseRequest(UploadFileRequestSchema, params)
  IN IF p.ok
     THEN Begin("slack_upload_file", params, p.value, FALSE, << >>, "upload",
                <<CallWith("files.getUploadURLExternal",
                           ReserveParams(p.value))>>)
     ELSE Refuse("slack_upload_file", params, Error(<<ZodError>>))

\* What follows the step that settled as c, given the calls so far.
AfterUploadStep(args, calls, c) ==
  LET fail(parts) == [next |-> << >>, res |-> Fail(Error(parts)),
                      parses |-> 0]
      go(call) == [next |-> <<call>>, res |-> NoResult, parses |-> 0]
  IN IF c.st = "thrown" THEN fail(<<c.error>>)
     ELSE IF c.api = "files.getUploadURLExternal"
     THEN IF c.st = "notok" \/ "upload_url" \notin DOMAIN c.data
             \/ "file_id" \notin DOMAIN c.data
          THEN fail(<<"Failed to reserve upload: ", c.error>>)
          ELSE go(Call("PUT", c.data.upload_url.v, << >>))
     ELSE IF c.api = "PUT"
     THEN IF c.st = "notok"
          THEN fail(<<"Failed to upload file bytes: ", c.error>>)
          ELSE go(CallWith("files.completeUploadExternal",
                           CompleteParams(args, calls[1])))
     ELSE IF c.st = "notok"
     THEN fail(<<"Failed to complete upload: ", c.error>>)
     ELSE LET merged == [f \in DOMAIN c.data \cup {"file"} |->
                           IF f = "file" THEN Obj(calls[1].data.file_id.v)
                           ELSE c.data[f]]
              p == ParseObject(UploadFileResponseSchema, merged)
          IN IF p.ok
             THEN [next |-> << >>,
                   res |-> Succeed(JSONstringify([top |-> p.value])),
                   parses |-> 1]
             ELSE [next |-> << >>, res |-> Fail(Error(<<ZodError>>)),
                   parses |-> 1]

\* Mutant: the upload is completed without waiting for the bytes.
SettleUploadEager(o) ==
  /\ inv.pc = "upload"
  /\ rc[Len(rc)].st = "pending"
  /\ o \in UploadOutcomes(rc[Len(rc)].api)
  /\ LET c == Settled(rc[Len(rc)], o)
         calls == [rc EXCEPT ![Len(rc)] = c]
         a == AfterUploadStep(inv.args, calls, [c EXCEPT !.st = "ok"])
     IN /\ rc' = calls \o a.next
        /\ order' = Append(order, Len(rc))
        /\ inv' = IF a.next = << >> THEN [inv EXCEPT !.pc = "done"] ELSE inv
        /\ res' = a.res
        /\ parsed' = a.parses
  /\ UNCHANGED <<httpVars, req, proc, listed>>

\* The step of the upload that is awaited settles: the next step is issued,
\* or the invocation ends.
SettleUpload(o) ==
  /\ inv.pc = "upload"
  /\ rc[Len(rc)].st = "pending"
  /\ o \in UploadOutcomes(rc[Len(rc)].api)
  /\ LET c == Settled(rc[Len(rc)], o)
         calls == [rc EXCEPT ![Len(rc)] = c]
         a == AfterUploadStep(inv.args, calls, c)
     IN /\ rc' = calls \o a.next
        /\ order' = Append(order, Len(rc))
        /\ inv' = IF a.next = << >> THEN [inv EXCEPT !.pc = "done"] ELSE inv
        /\ res' = a.res
        /\ parsed' = a.parses
  /\ UNCHANGED <<httpVars, req, proc, listed>>

\* Mutant: after a failure the server keeps the failed invocation's outcome.
DeliverKeepsFailure ==
  /\ inv.pc \in {"done", "rejected"}
  /\ inv' = NoInvocation
  /\ rc' = << >>
  /\ order' = << >>
  /\ res' = IF res.kind = "error" THEN res ELSE NoResult
  /\ parsed' = 0
  /\ UNCHANGED <<httpVars, req, proc, listed>>

\* The handler has returned or thrown: the outcome goes to the caller and
\* the server is ready for the next invocation.
Deliver ==
  /\ inv.pc \in {"done", "rejected"}
  /\ inv' = NoInvocation
  /\ rc' = << >>
  /\ order' = << >>
  /\ res' = NoResult
  /\ parsed' = 0
  /\ UNCHANGED <<httpVars, req, proc, listed>>

\* Mutant: the operation being served is left out of the list.
ListToolsWithoutCurrent ==
  /\ listed' = [tools |-> SelectSeq(Tools, LAMBDA t : t.name # inv.op)]
  /\ UNCHANGED <<dispatchVars, httpVars, req, proc>>

\* The ListToolsRequestSchema handler, lines 138-219: it returns the array
\* and touches nothing; a query can arrive while an invocation is awaiting
\* a remote call.
ListTools ==
  /\ listed' = [tools |-> Tools]
  /\ UNCHANGED <<dispatchVars, httpVars, req, proc>>

NextTool ==
  \/ Deliver
  \/ ListTools
  \/ /\ inv.pc = "idle"
     /\ \E name \in UnknownNames : InvokeUnknown(name)
  \/ /\ inv.pc = "idle"
     /\ \E op \in SingleOps : \E params \in Requests(op) :
          InvokeSingle(op, params)
  \/ /\ inv.pc = "idle"
     /\ \E op \in {"slack_post_message", "slack_send_file"},
           ids \in SeqsUpTo(FileIds, 0, MaxFiles) : InvokeFiles(op, ids)
  \/ /\ inv.pc = "idle"
     /\ \E params \in ProfilesRequests : InvokeProfiles(params)
  \/ /\ inv.pc = "batch"
     /\ \E i \in 1..Len(rc) : \E o \in Outcomes(rc[i].api, rc[i].arg) :
          SettleProfile(i, o)
  \/ /\ inv.pc = "files"
     /\ \E i \in 1..Len(rc) : \E o \in Outcomes(rc[i].api, rc[i].arg) :
          SettleFileInfo(i, o)
  \/ /\ inv.pc = "call"
     /\ \E o \in Outcomes(rc[Len(rc)].api, rc[Len(rc)].arg) : SettleCall(o)
  \/ /\ inv.pc = "idle"
     /\ \E params \in Requests("slack_upload_file") : InvokeUpload(params)
  \/ /\ inv.pc = "upload"
     /\ \E o \in UploadOutcomes(rc[Len(rc)].api) : SettleUpload(o)
  \/ /\ inv.pc = "done"
     /\ \E i \in 1..Len(rc) : \E o \in Outcomes(rc[i].api, rc[i].arg) :
          SettleLate(i, o)

SpecTool == Init /\ [][NextTool]_vars

(* ------------------------- request validation -------------------------- *)

\* The operations whose request schema is among the sources.
ParsedOps ==
  {"slack_list_channels", "slack_post_message", "slack_reply_to_thread",
   "slack_add_reaction", "slack_get_channel_history",
   "slack_get_thread_replies", "slack_get_users", "slack_get_user_profile",
   "slack_search_messages"}

\* request.params of slack_get_user_profiles with a batch whose size is
\* around the bounds of user_ids.
BatchRequests ==
  {[name |-> "slack_get_user_profiles",
    arguments |-> [user_ids |-> Arr([i \in 1..n |-> "U1"])]] :
     n \in Around(1, 100)}

\* <Request schema>.parse(request.params.arguments) of one operation,
\* applied to an argument bag.
Parse(op, params) ==
  /\ req' = [name |-> op, params |-> params,
             result |-> ParseRequest(RequestSchema(op), params)]
  /\ UNCHANGED <<httpVars, dispatchVars, proc, listed>>

NextParse ==
  \/ \E op \in ParsedOps : \E params \in Requests(op) : Parse(op, params)
  \/ \E params \in BatchRequests : Parse("slack_get_user_profiles", params)

SpecParse == Init /\ [][NextParse]_vars

(* ------------------------------ start-up ------------------------------- *)

\* Command-line arguments given to the process.
MaxArgs == 3

\* A string of the command line, as the sequence of its characters.
ArgPort == <<"-", "p", "o", "r", "t">>

ArgH == <<"-", "h">>

ArgHelp == <<"-", "-", "h", "e", "l", "p">>

DigitChars == <<"0", "1", "2", "3", "4", "5", "6", "7", "8", "9">>

IsDigit(c) == \E d \in 1..10 : DigitChars[d] = c

DigitOf(c) == (CHOOSE d \in 1..10 : DigitChars[d] = c) - 1

\* The decimal numeral of a natural number.
RECURSIVE Numeral(_)
Numeral(n) ==
  IF n < 10 THEN <<DigitChars[n + 1]>>
  ELSE Numeral(n \div 10) \o <<DigitChars[(n % 10) + 1]>>

\* The value of a sequence of digits.
RECURSIVE DigitsValue(_)
DigitsValue(d) ==
  IF d = << >> THEN 0
  ELSE 10 * DigitsValue(SubSeq(d, 1, Len(d) - 1)) + DigitOf(d[Len(d)])

\* The string without its leading white space.
RECURSIVE TrimStart(_)
TrimStart(str) ==
  IF str # << >> /\ str[1] = " " THEN TrimStart(Tail(str)) ELSE str

\* The longest prefix of digits.
RECURSIVE LeadingDigits(_)
LeadingDigits(str) ==
  IF str # << >> /\ IsDigit(str[1])
  THEN <<str[1]>> \o LeadingDigits(Tail(str))
  ELSE << >>

\* parseInt(str, 10): white space is skipped, a sign is read, then the
\* digits up to the first character that is none; NaN without a digit.
parseInt(str) ==
  LET t == TrimStart(str)
      signed == t # << >> /\ t[1] \in {"+", "-"}
      d == LeadingDigits(IF signed THEN Tail(t) ELSE t)
  IN IF d = << >> THEN [nan |-> TRUE, v |-> 0]
     ELSE [nan |-> FALSE,
           v |-> IF t[1] = "-" THEN 0 - DigitsValue(d) ELSE DigitsValue(d)]

\* A line written to the console: console.error or console.log, the text
\* and the argument spliced into it.
Line(stream, msg, arg) == [stream |-> stream, msg |-> msg, arg |-> arg]

UsageText == "Usage: slack-mcp-server [options]"

\* process.exit(code) inside parseArguments, after the lines written.
Exit(code, out) ==
  [exited |-> TRUE, code |-> code, port |-> << >>, out |-> out]

\* The loop of parseArguments from index i on, lines 67-94; port is << >>
\* while undefined.
RECURSIVE parseArguments(_, _, _)
parseArguments(args, i, port) ==
  IF i > Len(args)
  THEN [exited |-> FALSE, code |-> 0, port |-> port, out |-> << >>]
  ELSE IF args[i] = ArgPort /\ i + 1 <= Len(args)
  THEN LET portValue == parseInt(args[i + 1])
       IN IF portValue.nan \/ portValue.v <= 0 \/ portValue.v > 65535
          THEN Exit(1, <<Line("stderr", "Invalid port number: ",
                              args[i + 1])>>)
          ELSE parseArguments(args, i + 2, <<portValue.v>>)
  ELSE IF args[i] = ArgHelp \/ args[i] = ArgH
  THEN Exit(0, <<Line("stdout", UsageText, << >>)>>)
  ELSE IF args[i] # << >> /\ args[i][1] = "-"
  THEN Exit(1, <<Line("stderr", "Unknown option: ", args[i]),
                 Line("stderr", "Use --help for usage information",
                      << >>)>>)
  ELSE parseArguments(args, i + 1, port)

\* !process.env.X is false: the variable is set and not empty.
IsSet(v) == v \notin {Undefined, ""}

\* The environment after dotenv.config().
Envs ==
  [SLACK_BOT_TOKEN : {Undefined, "", "xoxb-1"},
   SLACK_USER_TOKEN : {Undefined, "", "xoxp-1"}]

\* Strings given on the command line: the options, an option the program
\* does not know, a word, and port values: numerals around the bounds of
\* a port and strings that are no numerals.
ArgStrings ==
  {ArgPort, ArgH, ArgHelp, <<"-", "x">>, <<"f", "o", "o">>}
  \cup {Numeral(n) : n \in Around(1, 65535) \cap Nat}
  \cup {<<"3", "0", "0", "0", "a", "b", "c">>, <<"1", "2", ".", "5">>,
        <<"a", "b", "c">>, <<"-", "1">>, << >>}

\* process.argv.slice(2)
Argvs == SeqsUpTo(ArgStrings, 0, MaxArgs)

\* The ways the process is started: every environment with at most one
\* argument, and every command line with both tokens set.
Launches ==
  {[env |-> e, argv |-> a] : e \in Envs, a \in SeqsUpTo(ArgStrings, 0, 1)}
  \cup {[env |-> [SLACK_BOT_TOKEN |-> "xoxb-1",
                  SLACK_USER_TOKEN |-> "xoxp-1"],
         argv |-> a] : a \in Argvs}

\* node starts the program with an environment and arguments.
Exec(env, argv) ==
  /\ proc.pc = "none"
  /\ proc' = [pc |-> "load", env |-> env, argv |-> argv, port |-> << >>,
              code |-> << >>, out |-> << >>, opened |-> {},
              clients |-> << >>]
  /\ UNCHANGED <<httpVars, dispatchVars, req, listed>>

\* process.exit(code) after the lines written.
Exited(code, out) ==
  [proc EXCEPT !.pc = "exited", !.code = <<code>>, !.out = out]

NotSet == " is not set. Please set it in your environment or .env file."

\* console.error of a token that is not set, lines 46-48 and 53-55.
NotSetLine(var) == Line("stderr", var \o NotSet, << >>)

\* Mutant: only SLACK_BOT_TOKEN is checked.
LoadModuleBotOnly ==
  /\ proc.pc = "load"
  /\ proc' = IF ~IsSet(proc.env.SLACK_BOT_TOKEN)
             THEN Exited(1, <<NotSetLine("SLACK_BOT_TOKEN")>>)
             ELSE [proc EXCEPT
                     !.pc = "main",
                     !.clients =
                        [slackClient |-> proc.env.SLACK_BOT_TOKEN,
                         userClient |-> proc.env.SLACK_USER_TOKEN]]
  /\ UNCHANGED <<httpVars, dispatchVars, req, listed>>

\* The top level of the module, lines 43-60: the two tokens are checked,
\* then the two clients are constructed.
LoadModule ==
  /\ proc.pc = "load"
  /\ proc' = IF ~IsSet(proc.env.SLACK_BOT_TOKEN)
             THEN Exited(1, <<NotSetLine("SLACK_BOT_TOKEN")>>)
             ELSE IF ~IsSet(proc.env.SLACK_USER_TOKEN)
             THEN Exited(1, <<NotSetLine("SLACK_USER_TOKEN")>>)
             ELSE [proc EXCEPT
                     !.pc = "main",
                     !.clients =
                        [slackClient |-> proc.env.SLACK_BOT_TOKEN,
                         userClient |-> proc.env.SLACK_USER_TOKEN]]
  /\ UNCHANGED <<httpVars, dispatchVars, req, listed>>

\* main calls parseArguments, line 663.
Main ==
  /\ proc.pc = "main"
  /\ LET r == parseArguments(proc.argv, 1, << >>)
     IN proc' = IF r.exited THEN Exited(r.code, r.out)
                ELSE [proc EXCEPT !.pc = "parsed", !.port = r.port]
  /\ UNCHANGED <<httpVars, dispatchVars, req, listed>>

\* runHttpServer(port), line 667: the listener is opened on the port.
RunHttpServer ==
  /\ proc.pc = "parsed"
  /\ proc.port # << >>
  /\ proc' = [proc EXCEPT !.pc = "running",
                          !.opened = proc.opened \cup {"http"}]
  /\ UNCHANGED <<httpVars, dispatchVars, req, listed>>

\* runStdioServer(), line 670.
RunStdioServer ==
  /\ proc.pc = "parsed"
  /\ proc.port = << >>
  /\ proc' = [proc EXCEPT !.pc = "running",
                          !.opened = proc.opened \cup {"stdio"}]
  /\ UNCHANGED <<httpVars, dispatchVars, req, listed>>

\* The client each remote method is called on.
ClientOf(api) ==
  IF api \in {"search.messages", "files.list", "files.info"}
  THEN "userClient"
  ELSE "slackClient"

NextMain ==
  \/ /\ proc.pc = "none"
     /\ \E l \in Launches : Exec(l.env, l.argv)
  \/ LoadModule
  \/ Main
  \/ RunHttpServer
  \/ RunStdioServer

SpecMain == Init /\ [][NextMain]_vars

(* ------------------------------- claims -------------------------------- *)

\* Identifiers of the sessions that were closed.
ClosedIds == {inst[t].sessionId : t \in {u \in 1..Len(inst) : inst[u].closed}}

\* Identifiers that have been keys of the registry.
EverRegistered ==
  {inst[t].sessionId : t \in 1..Len(inst)} \ {Undefined}

\* The step writes a response: every step does, but the creation of an
\* instance and the initialization of a session.
Answered == Len(inst') = Len(inst) /\ uuids' = uuids

\* The step invokes no tool handler of any server instance.
NoDispatch ==
  \A t \in 1..Len(inst') :
    inst'[t].calls = IF t <= Len(inst) THEN inst[t].calls ELSE 0

ClientError(status) == status \in 400..499

\* C1: a POST whose identifier is not a key of the registry and whose body
\* is no initialization is answered with a client error; its handling
\* leaves the registry unchanged and invokes no tool handler.
C1_UnknownSessionRejected ==
  [][/\ (Answered /\ last'.method = "POST" /\ ~last'.known
           /\ last'.body # "initialize") =>
          /\ ClientError(last'.status)
          /\ transports' = transports
          /\ NoDispatch
     /\ \A p \in pending' \ pending :
          p.body # "initialize" => transports' = transports /\ NoDispatch
    ]_vars

\* C2: every key of the registry maps to one open instance whose session
\* identifier is that key, no instance is registered under two keys, and
\* the identifier of a closed session is not a key.
C2_RegistryInvariant ==
  /\ \A k \in DOMAIN transports :
       /\ transports[k] \in 1..Len(inst)
       /\ inst[transports[k]].sessionId = k
       /\ ~inst[transports[k]].closed
  /\ \A k1, k2 \in DOMAIN transports :
       transports[k1] = transports[k2] => k1 = k2
  /\ ClosedIds \cap DOMAIN transports = {}

\* C2 witness: one session is registered and another has been closed.
C2_Witness ==
  /\ Cardinality(DOMAIN transports) = 1
  /\ ClosedIds # {}

\* C3: closing the transport of a registered session removes that
\* identifier's entry and changes no other; an entry leaves the registry in
\* no other way; every later GET, DELETE and non-initializing POST with the
\* identifier finds it unknown and is answered with a client error.
C3_CloseRemovesEntry ==
  [][/\ \A t \in 1..Len(inst) :
          (~inst[t].closed /\ inst'[t].closed) =>
            /\ inst[t].sessionId \in DOMAIN transports
            /\ transports' =
                 [k \in DOMAIN transports \ {inst[t].sessionId} |->
                    transports[k]]
     /\ \A k \in DOMAIN transports \ DOMAIN transports' :
          inst'[transports[k]].closed /\ ~inst[transports[k]].closed
     /\ (Answered /\ last'.hdr \in ClosedIds
           /\ last'.method \in {"GET", "DELETE", "POST"}
           /\ (last'.method = "POST" => last'.body # "initialize")) =>
          /\ ~last'.known
          /\ ClientError(last'.status)
          /\ transports' = transports
    ]_vars

\* C3 witness: a non-initializing POST with the identifier of a closed
\* session was refused.
C3_Witness ==
  /\ last.hdr \in ClosedIds
  /\ last.method = "POST"
  /\ last.body = "tools/call"
  /\ ~last.known
  /\ last.status = 400

\* C4: an initialization POST whose identifier is absent or not a key of
\* the registry is answered by a new instance; the identifier echoed was
\* generated for it, is not the client's, was never registered before, and
\* is registered to that instance when the response is written.
C4_InitCreatesFreshSession ==
  [][/\ (Answered /\ last'.method = "POST" /\ ~last'.known
           /\ last'.body = "initialize") =>
          /\ last'.made \in 1..Len(inst)
          /\ last'.echo # Undefined
          /\ last'.echo # last'.hdr
          /\ last'.echo \notin Echoed
          /\ last'.echo \in DOMAIN transports'
          /\ transports'[last'.echo] = last'.made
     /\ \A k \in DOMAIN transports' \ DOMAIN transports :
          k \notin EverRegistered
    ]_vars

\* C5: a POST whose identifier is a key of the registry is handled by the
\* instance registered under it; no instance is created for it and the
\* registry stays as it is.
C5_KnownSessionReused ==
  [][/\ \A p \in pending' \ pending : p.hdr \notin DOMAIN transports
     /\ (Answered /\ last'.method = "POST"
           /\ last'.hdr \in DOMAIN transports) =>
          /\ last'.known
          /\ last'.to = transports[last'.hdr]
          /\ last'.made = NoTransport
          /\ transports' = transports
    ]_vars

\* C5 witness: a tools/call POST with the identifier of the second session
\* was handled by the second instance.
C5_Witness ==
  /\ last.method = "POST"
  /\ last.body = "tools/call"
  /\ last.known
  /\ last.status = 200
  /\ last.to = 2
  /\ inst[2].calls = 1
  /\ Cardinality(DOMAIN transports) = 2

\* C6: GET and DELETE whose identifier is absent or not a key of the
\* registry are answered 400, reach no transport and change neither the
\* registry nor any session.
C6_GetDeleteRejected ==
  [][(Answered /\ last'.method \in {"GET", "DELETE"} /\ ~last'.known) =>
       /\ last'.status = 400
       /\ last'.to = NoTransport
       /\ transports' = transports
       /\ inst' = inst
    ]_vars

\* C7: sessions are independent. Two registered identifiers never share an
\* instance; an initialization echoes an identifier no client was given
\* before and leaves the entries already registered in place; a close
\* removes the closed session's entry only; a request with a registered
\* identifier is routed to the instance that identifier was generated for.
C7_SessionsIndependent ==
  [][/\ \A k1, k2 \in DOMAIN transports' :
          transports'[k1] = transports'[k2] => k1 = k2
     /\ (Answered /\ last'.echo # Undefined) => last'.echo \notin Echoed
     /\ uuids' # uuids =>
          \A k \in DOMAIN transports :
            k \in DOMAIN transports' /\ transports'[k] = transports[k]
     /\ \A k \in DOMAIN transports :
          \/ k \in DOMAIN transports' /\ transports'[k] = transports[k]
          \/ Answered /\ last'.method = "DELETE" /\ last'.hdr = k
     /\ (Answered /\ last'.known) =>
          /\ last'.to \in 1..Len(inst)
          /\ inst[last'.to].sessionId = last'.hdr
    ]_vars

\* C7 witness: two sessions were initialized without an identifier, the
\* first was closed, and a request with the second identifier was served by
\* the second instance.
C7_Witness ==
  /\ Len(inst) = 2
  /\ inst[1].closed
  /\ DOMAIN transports = {inst[2].sessionId}
  /\ last.method = "POST"
  /\ last.hdr = inst[2].sessionId
  /\ last.known
  /\ last.status = 200
  /\ last.to = 2

\* A member of the profile batch failed: the call threw, answered not-ok,
\* or answered a profile that GetUserProfileResponseSchema rejects.
ProfileInvalid(c) ==
  /\ c.st = "ok"
  /\ "profile" \in DOMAIN c.data
  /\ \E f \in DOMAIN c.sub \cap DOMAIN ProfileSchema :
       ~Conforms(c.sub[f], ProfileSchema[f])

MemberFailed(c) == c.st \in {"thrown", "notok"} \/ ProfileInvalid(c)

MemberError(c) ==
  IF ProfileInvalid(c) THEN ZodError
  ELSE IF c.error = Undefined THEN UnknownError
  ELSE c.error

\* C8: a finished slack_get_user_profiles succeeded and returns one element
\* per requested identifier, element i for user_ids[i] whatever the
\* completion order; the element of a failed member carries that member's
\* error and no profile, the element of a successful member carries no
\* error and the declared fields of that member's profile.
C8_BatchProfiles ==
  (inv.op = "slack_get_user_profiles" /\ inv.pc = "done") =>
    /\ res.kind = "ok"
    /\ res.text[1] = "json"
    /\ LET out == res.text[2].profiles
       IN /\ Len(out) = Len(inv.ids)
          /\ \A i \in 1..Len(inv.ids) :
               /\ out[i].user_id = inv.ids[i]
               /\ IF MemberFailed(rc[i])
                  THEN /\ DOMAIN out[i] = {"user_id", "error"}
                       /\ out[i].error = MemberError(rc[i])
                  ELSE /\ "error" \notin DOMAIN out[i]
                       /\ "profile" \in DOMAIN rc[i].data
                            <=> "profile" \in DOMAIN out[i]
                       /\ "profile" \in DOMAIN out[i] =>
                            /\ DOMAIN out[i].profile =
                                 DOMAIN rc[i].sub \cap DOMAIN ProfileSchema
                            /\ \A f \in DOMAIN out[i].profile :
                                 out[i].profile[f] = rc[i].sub[f]

\* C8 witness: a batch of two finished with the second member settled
\* first, one member failed and the other returned a profile.
C8_Witness ==
  /\ inv.op = "slack_get_user_profiles"
  /\ inv.pc = "done"
  /\ Len(inv.ids) = 2
  /\ order = <<2, 1>>
  /\ rc[1].st = "notok"
  /\ rc[2].st = "ok"
  /\ res.kind = "ok"
  /\ "profile" \in DOMAIN res.text[2].profiles[2]

FileInfos == IF inv.pc = "idle" \/ ~inv.hasFiles THEN {} ELSE 1..Len(inv.ids)

FailedInfos == {i \in FileInfos : rc[i].st # "pending" /\ InfoFailed(rc[i])}

Posted == {i \in 1..Len(rc) : rc[i].api = "chat.postMessage"}

\* C9: once the metadata of a file identifier of slack_post_message or
\* slack_send_file failed, chat.postMessage is never called and the
\* invocation does not succeed; it has failed when every files.info has
\* settled, and its error is the one of a failed identifier.
C9_FileInfoFailure ==
  (inv.op \in {"slack_post_message", "slack_send_file"}
     /\ FailedInfos # {}) =>
    /\ Posted = {}
    /\ res.kind # "ok"
    /\ (\A i \in FileInfos : rc[i].st # "pending") => inv.pc = "done"
    /\ inv.pc = "done" =>
         /\ res.kind = "error"
         /\ \E j \in FailedInfos :
              \/ rc[j].st = "thrown" /\ res.message = <<rc[j].error>>
              \/ /\ rc[j].st # "thrown"
                 /\ res.message = <<"Failed to fetch file info for ",
                                    inv.ids[j], ": ", rc[j].error>>

\* C9 witness: of two files the first was found and the second was not;
\* the invocation failed.
C9_Witness ==
  /\ inv.op = "slack_send_file"
  /\ Len(inv.ids) = 2
  /\ inv.pc = "done"
  /\ rc[1].st = "ok"
  /\ ~InfoFailed(rc[1])
  /\ rc[2].st = "notok"
  /\ rc[2].error = "not_found"
  /\ res.kind = "error"

\* C10: when the remote call of a single-call operation answered not-ok
\* with error e, the invocation failed with the operation's prefix followed
\* by e, no response was validated and no envelope was returned.
C10_NotOkSurfaces ==
  \A i \in 1..Len(rc) :
    (inv.op \in SingleOps /\ inv.pc = "done"
       /\ rc[i].api = Api[inv.op] /\ rc[i].st = "notok") =>
      /\ res.kind = "error"
      /\ res.message = <<Prefix[inv.op], rc[i].error>>
      /\ res.text = << >>
      /\ parsed = 0

\* C10 witness: listing channels was answered not-ok with an error string.
C10_Witness ==
  /\ inv.op = "slack_list_channels"
  /\ inv.pc = "done"
  /\ rc[1].st = "notok"
  /\ rc[1].error = "ratelimited"
  /\ res.kind = "error"

\* The invocation being served names no case of the switch, carries no
\* argument bag, or carries a bag its request schema rejects.
Invalid ==
  \/ inv.params.name \notin ToolNames
  \/ "arguments" \notin DOMAIN inv.params
  \/ ~ParseRequest(RequestSchema(inv.params.name), inv.params).ok

Cap(name, f) == IF f = "limit" THEN 1000 ELSE 100

BoundedFields(name) ==
  IF name \in {"slack_list_channels", "slack_get_channel_history",
               "slack_get_thread_replies", "slack_get_users"}
  THEN {"limit"}
  ELSE IF name = "slack_search_messages" THEN {"count", "page"}
  ELSE {}

\* C12: a limit given to a listing request validates exactly when it is an
\* integer in 1..1000, a count or page given to a search exactly when it is
\* an integer in 1..100, a profile batch exactly when it holds 1..100
\* identifiers; a value that validates is kept as given.
C12_NumericBounds ==
  (req.name # "none" /\ "arguments" \in DOMAIN req.params) =>
    LET a == req.params.arguments
    IN /\ \A f \in BoundedFields(req.name) \cap DOMAIN a :
            a[f].type = "number" =>
              /\ f \notin req.result.issues
                   <=> /\ IsInteger(a[f])
                       /\ a[f].v \in 1..Cap(req.name, f)
              /\ req.result.ok => req.result.value[f] = a[f]
       /\ req.name = "slack_get_user_profiles" =>
            ("user_ids" \notin req.result.issues
               <=> Len(a.user_ids.v) \in 1..100)

\* The five filters in the order of the claim, each with its token.
Filters ==
  <<[f |-> "in_channel", open |-> " in:", close |-> ""],
    [f |-> "in_group", open |-> " in:", close |-> ""],
    [f |-> "in_dm", open |-> " in:<@", close |-> ">"],
    [f |-> "from_user", open |-> " from:<@", close |-> ">"],
    [f |-> "from_bot", open |-> " from:", close |-> ""]>>

\* The base query of the bag a followed by the tokens of the first k
\* filters that a supplies; with skipEmpty, of those it supplies with a
\* value other than the empty string.
RECURSIVE Joined(_, _, _)
Joined(a, k, skipEmpty) ==
  IF k = 0 THEN (IF "query" \in DOMAIN a THEN a.query.v ELSE "")
  ELSE LET c == Filters[k]
       IN Joined(a, k - 1, skipEmpty)
            \o (IF c.f \in DOMAIN a /\ (skipEmpty => a[c.f].v # "")
                THEN c.open \o a[c.f].v \o c.close
                ELSE "")

\* The search.messages call of the invocation has been issued.
Searched ==
  /\ inv.op = "slack_search_messages"
  /\ inv.pc \in {"call", "done"}

Scenario ==
  [query |-> Str("hello"), in_channel |-> Str("general"),
   from_user |-> Str("U123")]

\* C13 as claimed: the query sent to search.messages is the base query
\* followed by one token for every filter the arguments supply, in the
\* order in_channel, in_group, in_dm, from_user, from_bot.
C13_QueryEverySupplied ==
  Searched =>
    rc[1].params.query = Str(Joined(inv.params.arguments, 5, FALSE))

\* C13 as amended: the query sent to search.messages is the base query
\* (the empty string when omitted) followed, for every filter supplied with
\* a value other than the empty string, in the order in_channel, in_group,
\* in_dm, from_user, from_bot, by a space and the filter's token; query
\* 'hello' with in_channel 'general' and from_user 'U123' gives
\* 'hello in:general from:<@U123>'.
C13_QueryConstruction ==
  Searched =>
    /\ rc[1].api = "search.messages"
    /\ rc[1].params.query = Str(Joined(inv.params.arguments, 5, TRUE))
    /\ inv.params.arguments = Scenario =>
         rc[1].params.query.v = "hello in:general from:<@U123>"

\* C13 witness: the scenario of the claim was searched.
C13_Witness ==
  /\ Searched
  /\ inv.params.arguments = Scenario
  /\ rc[1].params.query.v = "hello in:general from:<@U123>"

\* The invocation returned an envelope.
Returned == inv.pc = "done" /\ res.kind = "ok"

\* C14: a successful slack_post_message, slack_reply_to_thread,
\* slack_add_reaction, slack_delete_file or slack_send_file returns one
\* text element whose payload is the confirmation string of the operation,
\* whatever the arguments and the remote response were.
C14_FixedConfirmation ==
  (Returned /\ inv.op \in {"slack_post_message", "slack_reply_to_thread",
                           "slack_add_reaction", "slack_delete_file",
                           "slack_send_file"}) =>
    /\ Len(res.text) = 2
    /\ res.text[1] = "text"
    /\ res.text[2] =
         CASE inv.op = "slack_post_message" -> "Message posted successfully"
           [] inv.op = "slack_reply_to_thread" ->
                "Reply sent to thread successfully"
           [] inv.op = "slack_add_reaction" -> "Reaction added successfully"
           [] inv.op = "slack_delete_file" -> "File deleted successfully"
           [] inv.op = "slack_send_file" -> "File sent successfully"
    /\ parsed = 0

\* C14 witness: a message with text 'bye' was posted, the remote response
\* carried a timestamp, and the confirmation was returned.
C14_Witness ==
  /\ Returned
  /\ inv.op = "slack_post_message"
  /\ inv.args.text = Str("bye")
  /\ "ts" \in DOMAIN rc[1].data
  /\ res.text = <<"text", "Message posted successfully">>

\* The operations that return the validated remote response of one call.
DataOps ==
  {"slack_list_channels", "slack_get_channel_history",
   "slack_get_thread_replies", "slack_get_users", "slack_get_user_profile",
   "slack_search_messages", "slack_list_files", "slack_get_file_info"}

\* Every field of obj that schema declares has the declared type.
Compatible(obj, schema) ==
  \A f \in DOMAIN obj \cap DOMAIN schema : Conforms(obj[f], schema[f])

\* obj restricted to the fields schema declares.
Declared(obj, schema) == [f \in DOMAIN obj \cap DOMAIN schema |-> obj[f]]

\* The schema declared for the data of the response of an operation.
Inner(op) ==
  IF op = "slack_get_user_profile" THEN ProfileSchema ELSE ElementSchema[op]

\* The response of the invocation carries data with a declared schema.
HasInner ==
  /\ inv.op \in DOMAIN ElementSchema \cup {"slack_get_user_profile"}
  /\ DataField[rc[1].api][1] \in DOMAIN rc[1].data

ListingOps ==
  {"slack_list_channels", "slack_get_channel_history",
   "slack_get_thread_replies", "slack_get_users"}

\* The invocation carries a bag without limit whose other fields are as
\* the request schema of the operation declares them.
LimitOmitted ==
  /\ inv.pc # "idle"
  /\ inv.op \in ListingOps
  /\ "arguments" \in DOMAIN inv.params
  /\ "limit" \notin DOMAIN inv.params.arguments
  /\ LET a == inv.params.arguments
         schema == RequestSchema(inv.op)
     IN \A f \in DOMAIN schema \ {"limit"} :
          IF f \in DOMAIN a THEN Accepts(schema[f], a[f])
          ELSE schema[f].optional

\* C16: when limit is omitted from the arguments of a listing operation,
\* the arguments validate, the validated arguments hold limit = 100 and the
\* remote call is issued with limit = 100.
C16_DefaultLimit ==
  LimitOmitted =>
    /\ inv.pc \in {"call", "done"}
    /\ "limit" \in DOMAIN inv.args
    /\ inv.args.limit = Number(100)
    /\ Len(rc) = 1
    /\ rc[1].api = Api[inv.op]
    /\ "limit" \in DOMAIN rc[1].params
    /\ rc[1].params.limit = Number(100)

\* C16 witness: the history of a channel was requested without limit and
\* conversations.history was called with limit 100.
C16_Witness ==
  /\ LimitOmitted
  /\ inv.op = "slack_get_channel_history"
  /\ DOMAIN inv.params.arguments = {"channel_id"}
  /\ rc[1].api = "conversations.history"
  /\ rc[1].params.limit = Number(100)

\* A line written says that the variable is not set.
Names(var) == \E k \in 1..Len(proc.out) : proc.out[k] = NotSetLine(var)

\* The top level of the module has run.
Loaded == proc.pc \notin {"none", "load"}

\* The start-up is over: the process has exited or runs a transport.
Started == proc.pc \in {"exited", "running"}

BotSet == IsSet(proc.env.SLACK_BOT_TOKEN)

UserSet == IsSet(proc.env.SLACK_USER_TOKEN)

RemoteMethods ==
  {Api[op] : op \in DOMAIN Api} \cup {"users.profile.get", "files.info"}

\* C18: with SLACK_BOT_TOKEN set and SLACK_USER_TOKEN not set the process
\* does not stop for the missing token, and every remote method is called
\* with the bot token.
C18_BotTokenSuffices ==
  (Loaded /\ BotSet /\ ~UserSet) =>
    /\ ~Names("SLACK_USER_TOKEN")
    /\ proc.pc # "exited" =>
         \A api \in RemoteMethods :
           proc.clients[ClientOf(api)] = proc.env.SLACK_BOT_TOKEN

\* A string that is a decimal numeral throughout, of a value in 1..65535.
IsPort(str) ==
  /\ str # << >>
  /\ \A i \in 1..Len(str) : IsDigit(str[i])
  /\ DigitsValue(str) \in 1..65535

\* What the claim says of a command line without help flag, read from
\* index i on: whether it is fatal, and the port of the last -port.
RECURSIVE Claimed(_, _, _)
Claimed(args, i, port) ==
  IF i > Len(args) THEN [fatal |-> FALSE, port |-> port]
  ELSE IF args[i] = ArgPort /\ i + 1 <= Len(args)
  THEN IF IsPort(args[i + 1])
       THEN Claimed(args, i + 2, <<DigitsValue(args[i + 1])>>)
       ELSE [fatal |-> TRUE, port |-> << >>]
  ELSE IF args[i] # << >> /\ args[i][1] = "-"
  THEN [fatal |-> TRUE, port |-> << >>]
  ELSE Claimed(args, i + 1, port)

HelpAsked == \E i \in 1..Len(proc.argv) : proc.argv[i] \in {ArgH, ArgHelp}

\* C19: with both tokens set and no help flag, a -port value that is not a
\* decimal numeral of a value in 1..65535, or an argument beginning with
\* '-' that is no -port with its value, makes the process exit with a
\* status other than 0 and no transport opened; otherwise the HTTP
\* transport runs on the port given, or the stdio transport when no -port
\* is given; never both.
C19_CommandLine ==
  (Started /\ BotSet /\ UserSet /\ ~HelpAsked) =>
    LET c == Claimed(proc.argv, 1, << >>)
    IN IF c.fatal
       THEN /\ proc.pc = "exited"
            /\ proc.code # <<0>>
            /\ proc.opened = {}
       ELSE /\ proc.pc = "running"
            /\ proc.port = c.port
            /\ proc.opened = IF c.port = << >> THEN {"stdio"} ELSE {"http"}

\* C20: with both tokens set, a command line holding -h or --help at any
\* position makes the process print the usage text and exit with status 0
\* with no transport opened.
C20_HelpAnywhere ==
  (Started /\ BotSet /\ UserSet /\ HelpAsked) =>
    /\ proc.pc = "exited"
    /\ proc.code = <<0>>
    /\ proc.opened = {}
    /\ \E k \in 1..Len(proc.out) : proc.out[k].msg = UsageText

\* The invocation has ended and one of the causes of failure happened: it
\* was refused before any remote call, or a remote call it awaited threw or
\* answered not-ok (a member of a profile batch fails alone, see C8).
Failure ==
  \/ inv.pc = "rejected"
  \/ /\ inv.pc = "done"
     /\ inv.op # "slack_get_user_profiles"
     /\ \E i \in 1..Len(rc) : rc[i].st \in {"thrown", "notok"}

\* C21: a failed invocation ends as an error with no text envelope; no step
\* of the dispatcher touches the process, which therefore has not exited;
\* and once the failure is delivered the server is idle with the state of a
\* server that has served nothing, so the next invocation is served as a
\* first one is.
C21_FailureIsolated ==
  [][/\ proc' = proc
     /\ proc.pc # "exited"
     /\ Failure =>
          /\ res.kind = "error"
          /\ res.text = << >>
          /\ res.message # << >>
          /\ inv' # inv =>
               /\ inv' = NoInvocation
               /\ rc' = << >>
               /\ order' = << >>
               /\ res' = NoResult
               /\ parsed' = 0]_vars

\* C21 witness: a remote call threw, the invocation failed with its error.
C21_Witness ==
  /\ Failure
  /\ inv.op = "slack_add_reaction"
  /\ inv.pc = "done"
  /\ rc[1].st = "thrown"
  /\ res.kind = "error"
  /\ res.message = <<"ratelimited">>

\* The names of a list of tools, in order.
NamesOf(tools) == [i \in 1..Len(tools) |-> tools[i].name]

\* C22: every answer to a discovery query is the same array of 15 tools
\* with 15 different names, whatever the dispatcher is doing and whatever
\* it has served, and answering changes nothing but the answer.
C22_DiscoveryStable ==
  [][/\ listed' # NoListing =>
          /\ listed'.tools = Tools
          /\ Len(listed'.tools) = 15
          /\ Cardinality({NamesOf(listed'.tools)[i] : i \in 1..15}) = 15
     /\ listed # NoListing => listed' = listed
     /\ listed' # listed =>
          UNCHANGED <<dispatchVars, httpVars, req, proc>>]_vars

\* C22 witness: the list was answered and an invocation served since has
\* failed.
C22_Witness ==
  /\ listed # NoListing
  /\ listed.tools[11].name = "slack_upload_file"
  /\ inv.pc = "done"
  /\ inv.op = "slack_post_message"
  /\ res.kind = "error"

\* C23: GET /health is answered 200 with the object {status: "ok",
\* timestamp}, whatever identifier the request carries; the step creates no
\* instance and leaves the registry, the instances and the suspended
\* requests as they are.
C23_HealthFixed ==
  [][(Answered /\ last'.method = "GET /health") =>
       /\ last'.status = 200
       /\ DOMAIN last'.payload = {"status", "timestamp"}
       /\ last'.payload.status = "ok"
       /\ last'.payload.timestamp \in Instants
       /\ last'.made = NoTransport
       /\ last'.echo = Undefined
       /\ transports' = transports
       /\ inst' = inst
       /\ pending' = pending
    ]_vars

\* C23 witness: the health check was answered for a request that carried
\* the identifier of a registered session, which is still registered.
C23_Witness ==
  /\ last.method = "GET /health"
  /\ last.hdr \in DOMAIN transports
  /\ last.status = 200

\* C24: in the metadata fetch of slack_post_message with file_ids and of
\* slack_send_file, one files.info per identifier is issued, all at once
\* and in input order; while one of them is pending the invocation has
\* neither gone on to post nor ended; the blocks posted are those of the
\* identifiers in input order.
C24_FilesAllSettle ==
  (inv.pc # "idle" /\ inv.hasFiles /\ Len(inv.ids) > 0) =>
    /\ Len(rc) >= Len(inv.ids)
    /\ \A i \in FileInfos :
         rc[i].api = "files.info" /\ rc[i].arg = inv.ids[i]
    /\ (\E i \in FileInfos : rc[i].st = "pending") =>
         inv.pc = "files" /\ res.kind = "none" /\ Posted = {}
    /\ \A p \in Posted :
         /\ Len(rc[p].blocks) = Len(inv.ids)
         /\ \A i \in FileInfos : rc[p].blocks[i] = Block(rc[i].sub)

\* C25: on POST, GET and DELETE /mcp an identifier is known exactly when it
\* is a key of the registry, whatever string it is; a request with an
\* unknown identifier that is no initialization is answered with a client
\* error, and no request ends in a server error or without a response.
C25_OwnKeysOnly ==
  [][(Answered /\ last'.method \in {"POST", "GET", "DELETE"}) =>
       /\ last'.known <=> last'.hdr \in DOMAIN transports
       /\ (~last'.known
             /\ (last'.method = "POST" => last'.body # "initialize")) =>
            ClientError(last'.status)
       /\ last'.status \notin {0, 500}
    ]_vars

\* Instances that are open, and instances the registry holds.
OpenInstances == {t \in 1..Len(inst) : ~inst[t].closed}

Registered == {transports[k] : k \in DOMAIN transports}

\* Instances whose creating request is still being handled.
InHandling == {p.t : p \in pending}

\* C26: an instance created by POST /mcp whose request has been handled is
\* registered or closed, so that apart from requests in handling the open
\* instances are the registered ones, as many as the registry has entries.
C26_NoOrphanInstance ==
  /\ OpenInstances \ InHandling = Registered \ InHandling
  /\ pending = {} =>
       Cardinality(OpenInstances) = Cardinality(DOMAIN transports)

\* The steps of an upload, in order.
UploadSteps ==
  <<"files.getUploadURLExternal", "PUT", "files.completeUploadExternal">>

\* A step of the upload did what the next step needs.
StepSucceeded(c) ==
  /\ c.st = "ok"
  /\ c.api = "files.getUploadURLExternal" =>
       {"upload_url", "file_id"} \subseteq DOMAIN c.data

\* C27: the remote steps of slack_upload_file are issued in the order
\* reserve, PUT to the reserved URL, complete, each after the one before it
\* succeeded; a step that fails is the last one issued and the invocation
\* fails; a successful upload has made the three steps and returns the file
\* identifier the reserve step gave.
C27_UploadSequential ==
  (inv.op = "slack_upload_file" /\ inv.pc \in {"upload", "done"}) =>
    /\ Len(rc) \in 1..3
    /\ \A i \in 1..Len(rc) : rc[i].api = UploadSteps[i]
    /\ \A i \in 1..(Len(rc) - 1) : StepSucceeded(rc[i])
    /\ Len(rc) >= 2 => rc[2].arg = rc[1].data.upload_url.v
    /\ Len(rc) = 3 => rc[3].params.id = rc[1].data.file_id
    /\ (rc[Len(rc)].st # "pending" /\ ~StepSucceeded(rc[Len(rc)])) =>
         inv.pc = "done" /\ res.kind = "error" /\ res.text = << >>
    /\ res.kind = "ok" =>
         /\ Len(rc) = 3
         /\ StepSucceeded(rc[3])
         /\ res.text[2].top.file = Obj(rc[1].data.file_id.v)

\* C27 witness: an upload went through its three steps and returned the
\* identifier reserved, which is not the one the completion answered with.
C27_Witness ==
  /\ inv.op = "slack_upload_file"
  /\ inv.pc = "done"
  /\ res.kind = "ok"
  /\ Len(rc) = 3
  /\ rc[1].data.file_id = Str("F2")
  /\ rc[3].data.file = Obj("F9")
  /\ res.text[2].top.file = Obj("F2")

\* The operations that make one remote call; slack_post_message is one of
\* them when it is given no file identifier.
OneCallOps == SingleOps \ {"slack_send_file"}

\* Two calls are the same request to the remote platform.
SameCall(c, d) == c.api = d.api /\ c.arg = d.arg /\ c.params = d.params

\* C28: an invocation of a one-call operation whose arguments were accepted
\* has issued exactly one remote call, the one of its operation, until it
\* ends; and in no operation is a call that failed issued again: a settled
\* call stays settled, and no call issued later in the invocation repeats a
\* call that has failed.
C28_OneCallNoRetry ==
  [][/\ (inv'.op \in OneCallOps /\ Len(inv'.ids) = 0
           /\ inv'.pc \in {"call", "done"}) =>
          /\ Len(rc') = 1
          /\ rc'[1].api = Api[inv'.op]
     /\ (inv.pc # "idle" /\ inv'.pc # "idle") =>
          /\ Len(rc') >= Len(rc)
          /\ \A i \in 1..Len(rc) :
               rc[i].st # "pending" => rc'[i] = rc[i]
          /\ \A j \in (Len(rc) + 1)..Len(rc') : \A i \in 1..Len(rc) :
               rc'[i].st \in {"thrown", "notok"} =>
                 ~SameCall(rc'[j], rc'[i])
    ]_vars

\* C28 witness: deleting a file was answered not-ok; the invocation ended
\* having made that one call.
C28_Witness ==
  /\ inv.op = "slack_delete_file"
  /\ inv.pc = "done"
  /\ Len(rc) = 1
  /\ rc[1].api = "files.delete"
  /\ rc[1].st = "notok"
  /\ res.kind = "error"

\* The file an answered files.info of the invocation returned.
FileOf(i) == rc[i].sub

IsImage(file) ==
  "mimetype" \in DOMAIN file /\ file.mimetype.v \in ImageTypes

\* C29: the blocks built from the file identifiers are one per identifier,
\* in the order of the identifiers: for a file whose media type is an image
\* type, an image block with the file's private URL and, as alternative
\* text, its title, or else its name, or else "image"; for any other file,
\* also one without media type, a file block with the file's identifier.
C29_BlocksPerFile ==
  \A p \in Posted :
    (inv.hasFiles /\ Len(inv.ids) > 0) =>
      /\ Len(rc[p].blocks) = Len(inv.ids)
      /\ \A i \in 1..Len(inv.ids) :
           LET f == FileOf(i)
               b == rc[p].blocks[i]
           IN /\ rc[i].arg = inv.ids[i]
              /\ IsImage(f) =>
                   /\ DOMAIN b = {"type", "image_url", "alt_text"}
                   /\ b.type = "image"
                   /\ b.image_url = f.url_private.v
                   /\ "title" \in DOMAIN f => b.alt_text = f.title.v
                   /\ ("title" \notin DOMAIN f /\ "name" \in DOMAIN f) =>
                        b.alt_text = f.name.v
                   /\ {"title", "name"} \cap DOMAIN f = {} =>
                        b.alt_text = "image"
              /\ ~IsImage(f) =>
                   b = [type |-> "file", external_id |-> f.id.v,
                        source |-> "remote"]

\* C29 witness: two files were sent, a titled image and a file without
\* media type; the blocks are an image block with the title and a file
\* block, in that order.
C29_Witness ==
  /\ inv.op = "slack_send_file"
  /\ inv.ids = <<"F2", "F1">>
  /\ Posted = {3}
  /\ rc[3].blocks =
       <<[type |-> "image", image_url |-> "https://files.slack.com/F2",
          alt_text |-> "chart"],
         [type |-> "file", external_id |-> "F1", source |-> "remote"]>>

\* The names a list of tools advertises.
Catalogued(tools) == {tools[i].name : i \in 1..Len(tools)}

\* The invocation ended in the default case of the switch.
UnknownTool ==
  /\ res.kind = "error"
  /\ res.message = <<"Unknown tool: ", inv.params.name>>

\* C30: the names a discovery query returns are the names of the cases of
\* the switch; the input shape returned with each name is the JSON schema
\* of the request schema the case of that name parses with; and an
\* invocation ends in the default case exactly when its name is not
\* catalogued.
C30_CatalogMatchesDispatcher ==
  /\ listed # NoListing =>
       /\ Catalogued(listed.tools) = ToolNames
       /\ \A i \in 1..Len(listed.tools) :
            listed.tools[i].inputSchema =
              zodToJsonSchema(RequestSchema(listed.tools[i].name))
  /\ inv.pc # "idle" =>
       (UnknownTool <=> inv.params.name \notin Catalogued(Tools))

\* C30 witness: the catalogue was returned, and an invocation of the
\* catalogued slack_upload_file is in its own case, awaiting the PUT.
C30_Witness ==
  /\ listed # NoListing
  /\ "slack_upload_file" \in Catalogued(listed.tools)
  /\ inv.params.name = "slack_upload_file"
  /\ inv.pc = "upload"
  /\ Len(rc) = 2
  /\ ~UnknownTool

====
